---- MODULE Spec2Model ----
(***************************************************************************)
(* Model of the puzzle engine of vidoku (src/src/generation.rs):           *)
(*   is_safe_placement, get_first_empty_index, solution_count, fill_grid,  *)
(*   generate_random_filled_grid, get_random_unmasked_cell,                *)
(*   get_jittery_mirrored_cell and mask_grid.                              *)
(*                                                                         *)
(* A grid (Vec<Vec<u8>>) is a tuple of 9 tuples of 9 digits 0..9.  Row and *)
(* column numbers are the 0-based indexes of the source; Cell(g, r, c)     *)
(* reads g[r][c].                                                          *)
(***************************************************************************)
EXTENDS Integers, Sequences, FiniteSets, TLC

\* Side of the grid: the literal 9 of generation.rs (vec![vec![0; 9]; 9]).
N == 9
\* Side of a box: the literal 3 of generation.rs (row / 3, col / 3).
B == 3

Idx == 0..(N - 1)
Digits == 1..N

\* Option::None, and "no grid allocated yet".
None == << >>

\* grid[r][c] of the source, with its 0-based indexes.
Cell(g, r, c) == g[r + 1][c + 1]

\* grid[r][c] = v on a copy of the grid.
SetCell(g, r, c, v) == [g EXCEPT ![r + 1][c + 1] = v]

----------------------------------------------------------------------------
(* get_first_empty_index: the first 0 in row-major order, as (row, col).   *)

get_first_empty_index(grid) ==
    LET empty == {i \in 0..(N * N - 1) : Cell(grid, i \div N, i % N) = 0}
    IN  IF empty = {} THEN None
        ELSE LET flat_index == CHOOSE i \in empty : \A j \in empty : i <= j
             IN  << flat_index \div N, flat_index % N >>

----------------------------------------------------------------------------
(* is_safe_placement: three scans, each with its own `seen` array in which *)
(* the slot of val is set before the scan; a scan returns false at the     *)
(* first nonzero element whose slot is already set.                        *)

\* Mutant of seen_scan: empty cells are not skipped, 0 counts as a digit.
RECURSIVE seen_scan_counts_zero(_, _, _)
seen_scan_counts_zero(elems, i, seen) ==
    IF i > Len(elems) THEN TRUE
    ELSE IF elems[i] \in seen THEN FALSE
    ELSE seen_scan_counts_zero(elems, i + 1, seen \cup {elems[i]})

RECURSIVE seen_scan(_, _, _)
seen_scan(elems, i, seen) ==
    IF i > Len(elems) THEN TRUE
    ELSE IF elems[i] = 0 THEN seen_scan(elems, i + 1, seen)
    ELSE IF elems[i] \in seen THEN FALSE
    ELSE seen_scan(elems, i + 1, seen \cup {elems[i]})

row_elems(grid, row) == grid[row + 1]

col_elems(grid, col) == [i \in 1..N |-> grid[i][col + 1]]

\* Mutant of box_elems: the box is found with % instead of /.
box_elems_wrong_box(grid, row, col) ==
    LET box_row == row % B
        box_col == col % B
    IN  [k \in 1..(B * B) |->
            Cell(grid, B * box_row + ((k - 1) \div B), B * box_col + ((k - 1) % B))]

box_elems(grid, row, col) ==
    LET box_row == row \div B
        box_col == col \div B
    IN  [k \in 1..(B * B) |->
            Cell(grid, B * box_row + ((k - 1) \div B), B * box_col + ((k - 1) % B))]

\* Mutant of is_safe_placement: the box is not checked.
is_safe_placement_no_box(grid, row, col, val) ==
    /\ seen_scan(row_elems(grid, row), 1, {val})
    /\ seen_scan(col_elems(grid, col), 1, {val})

is_safe_placement(grid, row, col, val) ==
    /\ seen_scan(row_elems(grid, row), 1, {val})
    /\ seen_scan(col_elems(grid, col), 1, {val})
    /\ seen_scan(box_elems(grid, row, col), 1, {val})

----------------------------------------------------------------------------
(* solution_count: at the first empty cell, the sum over the digits 1..9   *)
(* that is_safe_placement accepts of the count of the grid with the digit  *)
(* placed; 1 when there is no empty cell.                                  *)

RECURSIVE solution_count(_)

\* Mutant of count_digit: a digit adds at most 1 (the count is capped).
count_digit_capped(grid, row_idx, col_idx, digit) ==
    IF is_safe_placement(grid, row_idx, col_idx, digit)
    THEN (IF solution_count(SetCell(grid, row_idx, col_idx, digit)) > 0
          THEN 1 ELSE 0)
    ELSE 0

\* One turn of `for digit in [1, ..., 9]`: what the digit adds to `solutions`.
count_digit(grid, row_idx, col_idx, digit) ==
    IF is_safe_placement(grid, row_idx, col_idx, digit)
    THEN solution_count(SetCell(grid, row_idx, col_idx, digit))
    ELSE 0

solution_count(grid) ==
    LET first == get_first_empty_index(grid)
    IN  IF first = None THEN 1
        ELSE LET r == first[1]
                 c == first[2]
             IN  ((count_digit(grid, r, c, 1) + count_digit(grid, r, c, 2))
                   + (count_digit(grid, r, c, 3) + count_digit(grid, r, c, 4)))
                 + (((count_digit(grid, r, c, 5) + count_digit(grid, r, c, 6))
                      + (count_digit(grid, r, c, 7) + count_digit(grid, r, c, 8)))
                    + count_digit(grid, r, c, 9))

----------------------------------------------------------------------------
(* The two grids of the unit tests of generation.rs and the completion of  *)
(* the first one.                                                          *)

TestSingleGrid ==
    << <<0, 1, 0, 0, 2, 0, 3, 0, 4>>,
       <<0, 0, 2, 0, 0, 5, 6, 1, 0>>,
       <<7, 0, 0, 0, 0, 3, 0, 8, 0>>,
       <<5, 0, 6, 0, 4, 0, 0, 0, 1>>,
       <<0, 0, 1, 0, 0, 0, 2, 0, 0>>,
       <<9, 0, 0, 0, 7, 0, 4, 0, 5>>,
       <<0, 4, 0, 6, 0, 0, 0, 0, 9>>,
       <<0, 6, 7, 2, 0, 0, 5, 0, 0>>,
       <<2, 0, 8, 0, 1, 0, 0, 3, 0>> >>

TestManyGrid ==
    << <<0, 0, 0, 0, 2, 0, 3, 0, 4>>,
       <<0, 0, 2, 0, 0, 5, 6, 1, 0>>,
       <<7, 0, 0, 0, 0, 3, 0, 8, 0>>,
       <<5, 0, 6, 0, 0, 0, 0, 0, 1>>,
       <<0, 0, 1, 0, 0, 0, 2, 0, 0>>,
       <<9, 0, 0, 0, 7, 0, 4, 0, 5>>,
       <<0, 4, 0, 0, 0, 0, 0, 0, 9>>,
       <<0, 6, 7, 0, 0, 0, 5, 0, 0>>,
       <<2, 0, 8, 0, 1, 0, 0, 0, 0>> >>

\* The one completion of TestSingleGrid: a filled grid such as
\* generate_random_filled_grid returns.
FilledGrid ==
    << <<6, 1, 9, 7, 2, 8, 3, 5, 4>>,
       <<8, 3, 2, 4, 9, 5, 6, 1, 7>>,
       <<7, 5, 4, 1, 6, 3, 9, 8, 2>>,
       <<5, 7, 6, 3, 4, 2, 8, 9, 1>>,
       <<4, 8, 1, 9, 5, 6, 2, 7, 3>>,
       <<9, 2, 3, 8, 7, 1, 4, 6, 5>>,
       <<3, 4, 5, 6, 8, 7, 1, 2, 9>>,
       <<1, 6, 7, 2, 3, 9, 5, 4, 8>>,
       <<2, 9, 8, 5, 1, 4, 7, 3, 6>> >>

----------------------------------------------------------------------------
(* State.  Each function of generation.rs that the claims speak of is run  *)
(* by a machine of its own, with its own variables; the variables of the   *)
(* machines a specification does not run keep their idle values.           *)

VARIABLES
    \* mask_grid
    pc,             \* where mask_grid is
    draws,          \* the values the random source yields in this run
    given_count,    \* argument
    grid,           \* argument: the filled grid
    masked_grid,    \* the working puzzle; None before it is cloned
    mask_count,     \* cells still to mask
    removed,        \* cells counted as removed by the quad and pair loops
    trial,          \* the cells of the trial under way
    before,         \* history: masked_grid when the trial under way began
    outcome,        \* history: how the latest finished trial ended
    \* a call of is_safe_placement
    safe_pc, safe_grid, safe_row, safe_col, safe_val, safe_result,
    \* a call of solution_count
    count_pc, count_grid, count_result,
    \* generate_random_filled_grid
    gen_pc,         \* where generate_random_filled_grid and fill_grid are
    gen_grid,       \* the grid of the innermost call
    gen_box,        \* how many of the offsets [0, 3, 6] have been seeded
    gen_stack,      \* the calls of fill_grid under way, outermost first
    gen_rng,        \* the random source: the shuffles to come, as a cycle
    gen_failed,     \* history: some call of fill_grid has returned None
    gen_input,      \* history: the grid passed to the root call of fill_grid
    \* get_jittery_mirrored_cell
    jit_pc,         \* "loop" while sampling, "done" once it has returned
    jit_grid,       \* argument
    jit_row,        \* argument
    jit_col,        \* argument
    jit_samples,    \* history: how many times the loop has sampled
    jit_ret,        \* the cell returned
    \* GameState: the last key and its readers
    game_pc,        \* "run" once with_keybind_manager has returned
    last_key,       \* the RefCell shared with the keydown callback
    game_op,        \* the operation that ran last
    game_ret,       \* what the last peek_last_key or consume_last_key returned
    game_event,     \* history: the event of the latest keydown
    game_down,      \* history: the keybind of the latest keydown that was not
                    \* ignored, if consume_last_key has not run since
    \* GameState::update for one bound action
    upd_pc,         \* "call" before update, "done" or "panic" after it
    upd_action,     \* the action kb_manager has for the consumed keybind
    focused_row,
    focused_col,
    upd_from,       \* history: focused_row and focused_col before update
    \* KeybindManager
    kb_pc,          \* "run" once the manager exists
    binds,          \* the HashMap, as its entries in the order of insertion
    kb_query,       \* the keybind get_action was last called with
    kb_ret,         \* what get_action returned
    \* Action::try_from
    parse_pc,
    parse_value,    \* argument: the string, as its characters
    parse_ret,      \* the Action, or the error
    \* GameState: the grid, generate_grid and update
    play_pc,        \* "new" once constructed, "run" after generate_grid
    play_grid,      \* grid: Vec<Vec<Cell>>
    play_solution,  \* solution
    play_row,       \* focused_row
    play_col,       \* focused_col
    play_highlight, \* highlighted_digit
    play_action     \* history: the action of the latest update

mask_vars == << pc, draws, given_count, grid, masked_grid, mask_count,
                removed, trial, before, outcome >>

safe_vars == << safe_pc, safe_grid, safe_row, safe_col, safe_val, safe_result >>

count_vars == << count_pc, count_grid, count_result >>

gen_vars ==
    << gen_pc, gen_grid, gen_box, gen_stack, gen_rng, gen_failed, gen_input >>

jit_vars == << jit_pc, jit_grid, jit_row, jit_col, jit_samples, jit_ret >>

game_vars == << game_pc, last_key, game_op, game_ret, game_down, game_event >>

upd_vars == << upd_pc, upd_action, focused_row, focused_col, upd_from >>

kb_vars == << kb_pc, binds, kb_query, kb_ret >>

parse_vars == << parse_pc, parse_value, parse_ret >>

play_vars ==
    << play_pc, play_grid, play_solution, play_row, play_col, play_highlight,
       play_action >>

ui_vars == << game_vars, upd_vars, kb_vars, parse_vars, play_vars >>

vars == << mask_vars, safe_vars, count_vars, gen_vars, jit_vars, ui_vars >>

not_mask_vars == << safe_vars, count_vars, gen_vars, jit_vars, ui_vars >>
not_safe_vars == << mask_vars, count_vars, gen_vars, jit_vars, ui_vars >>
not_count_vars == << mask_vars, safe_vars, gen_vars, jit_vars, ui_vars >>
not_gen_vars == << mask_vars, safe_vars, count_vars, jit_vars, ui_vars >>
not_jit_vars == << mask_vars, safe_vars, count_vars, gen_vars, ui_vars >>
not_game_vars ==
    << mask_vars, safe_vars, count_vars, gen_vars, jit_vars,
       upd_vars, kb_vars, parse_vars, play_vars >>
not_upd_vars ==
    << mask_vars, safe_vars, count_vars, gen_vars, jit_vars,
       game_vars, kb_vars, parse_vars, play_vars >>
not_kb_vars ==
    << mask_vars, safe_vars, count_vars, gen_vars, jit_vars,
       game_vars, upd_vars, parse_vars, play_vars >>
not_parse_vars ==
    << mask_vars, safe_vars, count_vars, gen_vars, jit_vars,
       game_vars, upd_vars, kb_vars, play_vars >>
not_play_vars ==
    << mask_vars, safe_vars, count_vars, gen_vars, jit_vars,
       game_vars, upd_vars, kb_vars, parse_vars >>

MaskIdle ==
    /\ pc = "idle"
    /\ draws = None
    /\ given_count = 0
    /\ grid = None
    /\ masked_grid = None
    /\ mask_count = 0
    /\ removed = 0
    /\ trial = << >>
    /\ before = None
    /\ outcome = "none"

SafeIdle ==
    /\ safe_pc = "idle"
    /\ safe_grid = None
    /\ safe_row = 0
    /\ safe_col = 0
    /\ safe_val = 0
    /\ safe_result = FALSE

CountIdle ==
    /\ count_pc = "idle"
    /\ count_grid = None
    /\ count_result = 0

GenIdle ==
    /\ gen_pc = "idle"
    /\ gen_grid = None
    /\ gen_box = 0
    /\ gen_stack = << >>
    /\ gen_rng = << >>
    /\ gen_failed = FALSE
    /\ gen_input = None

JitIdle ==
    /\ jit_pc = "idle"
    /\ jit_grid = None
    /\ jit_row = 0
    /\ jit_col = 0
    /\ jit_samples = 0
    /\ jit_ret = None

GameIdle ==
    /\ game_pc = "idle"
    /\ last_key = None
    /\ game_op = "none"
    /\ game_ret = None
    /\ game_down = None
    /\ game_event = None

UpdIdle ==
    /\ upd_pc = "idle"
    /\ upd_action = None
    /\ focused_row = 0
    /\ focused_col = 0
    /\ upd_from = None

KbIdle ==
    /\ kb_pc = "idle"
    /\ binds = << >>
    /\ kb_query = None
    /\ kb_ret = None

ParseIdle ==
    /\ parse_pc = "idle"
    /\ parse_value = << >>
    /\ parse_ret = None

PlayIdle ==
    /\ play_pc = "idle"
    /\ play_grid = None
    /\ play_solution = None
    /\ play_row = 0
    /\ play_col = 0
    /\ play_highlight = None
    /\ play_action = None

UiIdle == GameIdle /\ UpdIdle /\ KbIdle /\ ParseIdle /\ PlayIdle

----------------------------------------------------------------------------
(* The random source.  rng.gen_range(0..9) and rng.gen_range(-3..=3) are   *)
(* inputs of the model: every value of the sets below can be drawn at      *)
(* every draw.  The sets are parts of the ranges of the source, chosen so  *)
(* that the cells a trial can propose include the four cells               *)
(* (1,3) (1,5) (8,3) (8,5) of FilledGrid, whose joint removal leaves two   *)
(* completions.                                                            *)

RowDraws == {1}
ColDraws == {3, 5}
JitterDraws == {-1, 0, 1}

\* The draws of a run that samples one jitter offset only, so that a run
\* that is asked to mask many cells stays small.
NarrowJitterDraws == {0}

\* The random source of a run.  In a run that is not scripted every value
\* of rows, cols and jitter can be drawn at every draw.  In a scripted run
\* the draws are fixed: the selectors yield the cells of script, trial after
\* trial, and rows, cols and jitter are the ranges of the source.
WideDraws ==
    [rows |-> RowDraws, cols |-> ColDraws, jitter |-> JitterDraws,
     scripted |-> FALSE, script |-> << >>]
NarrowDraws ==
    [rows |-> RowDraws, cols |-> ColDraws, jitter |-> NarrowJitterDraws,
     scripted |-> FALSE, script |-> << >>]

\* get_random_unmasked_cell: the cells the rejection loop can return, the
\* sampled cells that are nonzero in the grid it is given.
get_random_unmasked_cell(g) ==
    {cell \in draws.rows \X draws.cols : Cell(g, cell[1], cell[2]) # 0}

\* Mutant of jitter_sample: the offsets are added and nothing wraps.
jitter_sample_no_wrap(row, col, off_r, off_c) ==
    << (N - row - 1) + off_r, (N - col - 1) + off_c >>

\* One sample of get_jittery_mirrored_cell for the offsets off_r, off_c.
jitter_sample(row, col, off_r, off_c) ==
    LET mirror_r == N - row - 1
        mirror_c == N - col - 1
    IN  << ((mirror_r + off_r) + N) % N, ((mirror_c + off_c) + N) % N >>

\* get_jittery_mirrored_cell: the cells the rejection loop can return.
get_jittery_mirrored_cell(g, row, col) ==
    {cell \in {jitter_sample(row, col, off_r, off_c) :
                    off_r \in draws.jitter, off_c \in draws.jitter} :
        Cell(g, cell[1], cell[2]) # 0}

----------------------------------------------------------------------------
(* mask_grid(grid, given_count).                                           *)

\* The ranges of the source: rng.gen_range(0..9) and rng.gen_range(-3..=3).
JitterRange == (-3)..3

\* The trials of the scripted run, in order: five quads, five pairs and 23
\* single cells, all committed, after which no given can be masked; then a
\* single given, and then a single cell that is masked already.
MaskScript ==
    << << <<0, 7>>, <<7, 0>>, <<8, 4>>, <<1, 7>> >>,
       << <<8, 0>>, <<8, 8>>, <<6, 2>>, <<6, 0>> >>,
       << <<1, 1>>, <<7, 2>>, <<5, 4>>, <<2, 6>> >>,
       << <<6, 1>>, <<3, 3>>, <<3, 8>>, <<8, 6>> >>,
       << <<0, 3>>, <<7, 8>>, <<8, 7>>, <<4, 6>> >>,
       << <<4, 5>>, <<4, 3>> >>,
       << <<2, 4>>, <<8, 1>> >>,
       << <<5, 8>>, <<1, 2>> >>,
       << <<7, 4>>, <<0, 4>> >>,
       << <<7, 1>>, <<4, 4>> >>,
       << <<5, 1>> >>,
       << <<1, 4>> >>,
       << <<5, 3>> >>,
       << <<2, 1>> >>,
       << <<5, 6>> >>,
       << <<3, 5>> >>,
       << <<7, 7>> >>,
       << <<7, 6>> >>,
       << <<8, 3>> >>,
       << <<4, 8>> >>,
       << <<2, 0>> >>,
       << <<6, 4>> >>,
       << <<0, 1>> >>,
       << <<3, 4>> >>,
       << <<8, 2>> >>,
       << <<7, 5>> >>,
       << <<1, 8>> >>,
       << <<3, 6>> >>,
       << <<3, 2>> >>,
       << <<6, 3>> >>,
       << <<3, 0>> >>,
       << <<3, 7>> >>,
       << <<5, 7>> >>,
       << <<8, 5>> >>,
       << <<8, 8>> >> >>

ScriptDraws ==
    [rows |-> Idx, cols |-> Idx, jitter |-> JitterRange,
     scripted |-> TRUE, script |-> MaskScript]

\* The cells the scripted run proposes.
ScriptCells ==
    UNION {{MaskScript[k][i] : i \in 1..Len(MaskScript[k])} :
                k \in 1..Len(MaskScript)}

\* Fewest givens mask_grid accepts: assert!(given_count >= 17).
MinGivens == 17
\* `removed < 20` of the quad loop and `removed < 30` of the pair loop.
QuadLimit == 20
PairLimit == 30

\* Largest number of cells mask_grid is asked to mask in the model.
MaxToRemove == 7

GivenCounts == (0..(MinGivens - 1)) \cup ((N * N - MaxToRemove)..(N * N))

\* Largest number of cells mask_grid is asked to mask in a run of narrow
\* draws: enough for removed to pass QuadLimit and PairLimit.
DeepToRemove == 33

DeepGivenCounts == (N * N - DeepToRemove)..(N * N - QuadLimit)

\* The scripted run is asked to mask as many cells as its script proposes;
\* or no cell, or it is asked for fewer givens than mask_grid accepts.
ScriptGivenCounts ==
    (0..(MinGivens - 1)) \cup {N * N - Cardinality(ScriptCells), N * N}

\* mask_count and removed are usize.  A usize is held as the integer that
\* is congruent to it modulo 2^w and nearest to 0, w being the width of
\* usize: a negative x stands for 2^w + x, the value a subtraction that
\* wraps leaves.  usize_ge is >= on the values held, for 0 <= k.
usize_ge(x, k) == x < 0 \/ x >= k

\* Most that given_count exceeds the number of cells by, in the model.
MaxOver == 1

OverGivenCounts == (N * N + 1)..(N * N + MaxOver)

\* How far below 0 the integer held for a wrapped mask_count is followed.
WrapFloor == 1

VerifyPcs == {"quad_verify", "pair_verify", "single_verify"}
LoopPcs == {"quads", "pairs", "singles"}

\* Mutant of given_count_ok: the bound of the assertion is off by one.
given_count_ok_off_by_one(n) == n >= MinGivens - 1

given_count_ok(n) == n >= MinGivens

\* Mutant of initial_mask_count: one cell too many is to be masked.
initial_mask_count_off_by_one(n) == N * N - n + 1

initial_mask_count(n) == N * N - n

\* Mutant of quad_loop_continues: `removed < 20` is not tested.
quad_loop_continues_no_limit(count, done) == count >= 4

quad_loop_continues(count, done) == usize_ge(count, 4) /\ done < QuadLimit

pair_loop_continues(count, done) == usize_ge(count, 2) /\ done < PairLimit

single_loop_continues(count) == usize_ge(count, 1)

\* masked_grid[r][c] = 0 for the cells of the trial, in order.
RECURSIVE mask_cells(_, _)
mask_cells(masked, cells) ==
    IF cells = << >> THEN masked
    ELSE mask_cells(SetCell(masked, cells[1][1], cells[1][2], 0), Tail(cells))

\* Mutant of restore_cells: a rejected trial is not undone.
restore_cells_skipped(masked, filled, cells) == masked

\* Mutant of restore_cells: the value is read from grid[c][r].
RECURSIVE restore_cells_transposed(_, _, _)
restore_cells_transposed(masked, filled, cells) ==
    IF cells = << >> THEN masked
    ELSE restore_cells_transposed(
            SetCell(masked, cells[1][1], cells[1][2],
                    Cell(filled, cells[1][2], cells[1][1])),
            filled, Tail(cells))

\* masked_grid[r][c] = grid[r][c] for the cells of the trial, in order.
RECURSIVE restore_cells(_, _, _)
restore_cells(masked, filled, cells) ==
    IF cells = << >> THEN masked
    ELSE restore_cells(
            SetCell(masked, cells[1][1], cells[1][2],
                    Cell(filled, cells[1][1], cells[1][2])),
            filled, Tail(cells))

MaskInit ==
    /\ pc = "start"
    /\ \/ draws = WideDraws /\ given_count \in GivenCounts
       \/ draws = NarrowDraws /\ given_count \in DeepGivenCounts
    /\ grid = FilledGrid
    /\ masked_grid = None
    /\ mask_count = 0
    /\ removed = 0
    /\ trial = << >>
    /\ before = None
    /\ outcome = "none"
    /\ SafeIdle
    /\ CountIdle
    /\ GenIdle
    /\ JitIdle
    /\ UiIdle

\* assert!(given_count >= 17) fails.
MaskAssertFail ==
    /\ pc = "start"
    /\ ~given_count_ok(given_count)
    /\ pc' = "panic"
    /\ UNCHANGED << draws, given_count, grid, masked_grid, mask_count, removed,
                    trial, before, outcome >>
    /\ UNCHANGED not_mask_vars

\* The assertion holds: mask_count, removed and masked_grid are set up.
\* 9 * 9 - given_count underflows when given_count is above 81: a build
\* with overflow checks panics, a build without them wraps.
MaskStart ==
    /\ pc = "start"
    /\ given_count_ok(given_count)
    /\ \E overflow_checks \in BOOLEAN :
          IF overflow_checks /\ given_count > N * N
          THEN /\ pc' = "panic"
               /\ UNCHANGED << mask_count, removed, masked_grid >>
          ELSE /\ mask_count' = initial_mask_count(given_count)
               /\ removed' = 0
               /\ masked_grid' = grid
               /\ pc' = "quads"
    /\ UNCHANGED << draws, given_count, grid, trial, before, outcome >>
    /\ UNCHANGED not_mask_vars

\* The cells of the next trial of a scripted run, if they are cells the
\* selectors can yield: the first cells from get_random_unmasked_cell, the
\* cells after them from get_jittery_mirrored_cell, in the order of the
\* source.
scripted_trial(g, firsts, size) ==
    IF draws.script = << >> THEN {}
    ELSE {t \in {Head(draws.script)} :
            /\ Len(t) = size
            /\ \A i \in 1..firsts : t[i] \in get_random_unmasked_cell(g)
            /\ \A i \in 1..(size - firsts) :
                  t[firsts + i]
                      \in get_jittery_mirrored_cell(g, t[i][1], t[i][2])}

\* The cells are chosen and masked; solution_count has not run yet.
Propose(cells, next_pc) ==
    /\ mask_count >= -WrapFloor
    /\ draws' = IF draws.scripted
                THEN [draws EXCEPT !.script = Tail(@)]
                ELSE draws
    /\ trial' = cells
    /\ before' = masked_grid
    /\ masked_grid' = mask_cells(masked_grid, cells)
    /\ pc' = next_pc
    /\ UNCHANGED << given_count, grid, mask_count, removed, outcome >>
    /\ UNCHANGED not_mask_vars

\* if solution_count(masked_grid.clone()) == 1 { count } else { restore }
Verify(step, counts_removed, loop_pc) ==
    /\ IF solution_count(masked_grid) = 1
       THEN /\ mask_count' = mask_count - step
            /\ removed' = IF counts_removed THEN removed + step ELSE removed
            /\ masked_grid' = masked_grid
            /\ outcome' = "commit"
       ELSE /\ masked_grid' = restore_cells(masked_grid, grid, trial)
            /\ outcome' = "restore"
            /\ UNCHANGED << mask_count, removed >>
    /\ trial' = << >>
    /\ before' = None
    /\ pc' = loop_pc
    /\ UNCHANGED << draws, given_count, grid >>
    /\ UNCHANGED not_mask_vars

\* Both selectors are given `grid`, the filled grid, as in the source.
QuadPropose ==
    /\ pc = "quads"
    /\ quad_loop_continues(mask_count, removed)
    /\ IF draws.scripted
       THEN \E cells \in scripted_trial(grid, 2, 4) :
                Propose(cells, "quad_verify")
       ELSE \E c1 \in get_random_unmasked_cell(grid) :
            \E c2 \in get_random_unmasked_cell(grid) :
            \E c3 \in get_jittery_mirrored_cell(grid, c1[1], c1[2]) :
            \E c4 \in get_jittery_mirrored_cell(grid, c2[1], c2[2]) :
                Propose(<< c1, c2, c3, c4 >>, "quad_verify")

QuadVerify ==
    /\ pc = "quad_verify"
    /\ Verify(4, TRUE, "quads")

QuadExit ==
    /\ pc = "quads"
    /\ ~quad_loop_continues(mask_count, removed)
    /\ pc' = "pairs"
    /\ UNCHANGED << draws, given_count, grid, masked_grid, mask_count, removed,
                    trial, before, outcome >>
    /\ UNCHANGED not_mask_vars

PairPropose ==
    /\ pc = "pairs"
    /\ pair_loop_continues(mask_count, removed)
    /\ IF draws.scripted
       THEN \E cells \in scripted_trial(grid, 1, 2) :
                Propose(cells, "pair_verify")
       ELSE \E c1 \in get_random_unmasked_cell(grid) :
            \E c2 \in get_jittery_mirrored_cell(grid, c1[1], c1[2]) :
                Propose(<< c1, c2 >>, "pair_verify")

PairVerify ==
    /\ pc = "pair_verify"
    /\ Verify(2, TRUE, "pairs")

PairExit ==
    /\ pc = "pairs"
    /\ ~pair_loop_continues(mask_count, removed)
    /\ pc' = "singles"
    /\ UNCHANGED << draws, given_count, grid, masked_grid, mask_count, removed,
                    trial, before, outcome >>
    /\ UNCHANGED not_mask_vars

SinglePropose ==
    /\ pc = "singles"
    /\ single_loop_continues(mask_count)
    /\ IF draws.scripted
       THEN \E cells \in scripted_trial(grid, 1, 1) :
                Propose(cells, "single_verify")
       ELSE \E cell \in get_random_unmasked_cell(grid) :
                Propose(<< cell >>, "single_verify")

SingleVerify ==
    /\ pc = "single_verify"
    /\ Verify(1, FALSE, "singles")

\* The single loop ends and mask_grid returns masked_grid.
MaskReturn ==
    /\ pc = "singles"
    /\ ~single_loop_continues(mask_count)
    /\ pc' = "done"
    /\ UNCHANGED << draws, given_count, grid, masked_grid, mask_count, removed,
                    trial, before, outcome >>
    /\ UNCHANGED not_mask_vars

MaskNext ==
    \/ MaskAssertFail
    \/ MaskStart
    \/ QuadPropose
    \/ QuadVerify
    \/ QuadExit
    \/ PairPropose
    \/ PairVerify
    \/ PairExit
    \/ SinglePropose
    \/ SingleVerify
    \/ MaskReturn

SpecMask == MaskInit /\ [][MaskNext]_vars

\* mask_grid with every given_count of MaskInit's wide runs and with those
\* above the number of cells.
MaskInitOver ==
    /\ pc = "start"
    /\ draws = WideDraws
    /\ given_count \in GivenCounts \cup OverGivenCounts
    /\ grid = FilledGrid
    /\ masked_grid = None
    /\ mask_count = 0
    /\ removed = 0
    /\ trial = << >>
    /\ before = None
    /\ outcome = "none"
    /\ SafeIdle
    /\ CountIdle
    /\ GenIdle
    /\ JitIdle
    /\ UiIdle

SpecMaskOver == MaskInitOver /\ [][MaskNext]_vars

\* mask_grid with the draws of the script.
MaskInitScript ==
    /\ pc = "start"
    /\ draws = ScriptDraws
    /\ given_count \in ScriptGivenCounts
    /\ grid = FilledGrid
    /\ masked_grid = None
    /\ mask_count = 0
    /\ removed = 0
    /\ trial = << >>
    /\ before = None
    /\ outcome = "none"
    /\ SafeIdle
    /\ CountIdle
    /\ GenIdle
    /\ JitIdle
    /\ UiIdle

SpecMaskScript == MaskInitScript /\ [][MaskNext]_vars

----------------------------------------------------------------------------
(* What the claims about mask_grid speak of.                               *)

Cells == Idx \X Idx

NonZeroCount(g) == Cardinality({cell \in Cells : Cell(g, cell[1], cell[2]) # 0})

\* Every row, column and box of g holds each digit 1..9 (so: no zero cell).
IsFilledGrid(g) ==
    /\ \A r \in Idx : {Cell(g, r, c) : c \in Idx} = Digits
    /\ \A c \in Idx : {Cell(g, r, c) : r \in Idx} = Digits
    /\ \A br \in 0..(B - 1) : \A bc \in 0..(B - 1) :
          {Cell(g, B * br + i, B * bc + j) : i \in 0..(B - 1), j \in 0..(B - 1)}
              = Digits

\* partial and full are equal wherever partial is nonzero.
Agrees(partial, full) ==
    \A cell \in Cells :
        Cell(partial, cell[1], cell[2]) # 0 =>
            Cell(partial, cell[1], cell[2]) = Cell(full, cell[1], cell[2])

\* C1 (as claimed): when mask_grid(filled, n) returns, the returned puzzle
\* has exactly n nonzero cells.
C1_ExactlyGivenCountOnReturn ==
    pc = "done" => NonZeroCount(masked_grid) = given_count

\* C2: at the end of every loop iteration of every phase, after a commit and
\* after a restore, and on return, the working puzzle has exactly one
\* completion, and that completion is the filled grid.
C2_OneCompletionAtLoopEnds ==
    pc \in LoopPcs \cup {"done"} =>
        /\ solution_count(masked_grid) = 1
        /\ IsFilledGrid(grid)
        /\ Agrees(masked_grid, grid)

\* A rejected trial has just been undone, with cells of earlier trials masked.
C2_Witness ==
    /\ pc \in LoopPcs
    /\ outcome = "restore"
    /\ masked_grid # grid

\* C3: in every state of mask_grid every cell of the working puzzle is 0 or
\* the cell of the filled grid, and the filled grid is the one passed in.
C3_MaskedOrOriginal ==
    /\ grid = FilledGrid
    /\ masked_grid # None =>
          \A cell \in Cells :
              Cell(masked_grid, cell[1], cell[2])
                  \in {0, Cell(grid, cell[1], cell[2])}

\* A rejected pair trial undone after an earlier trial was committed.
C3_Witness ==
    /\ pc = "pairs"
    /\ outcome = "restore"
    /\ removed > 0

\* C4: mask_grid(filled, 81) runs no trial in any phase and returns a grid
\* equal to filled in all 81 cells.
C4_NothingToMask ==
    given_count = N * N =>
        /\ pc \notin VerifyPcs
        /\ trial = << >>
        /\ outcome = "none"
        /\ pc = "done" => masked_grid = grid

C4_Witness ==
    /\ given_count = N * N
    /\ pc = "done"
    /\ masked_grid = FilledGrid

\* C5: with given_count <= 16 mask_grid stops at the assertion: the only
\* step is the failure, no cell is selected or masked, solution_count is
\* not called and nothing is returned.
C5_PreconditionRejects ==
    given_count <= 16 =>
        /\ pc \in {"start", "panic"}
        /\ pc = "start" => (ENABLED MaskAssertFail /\ ~ENABLED MaskStart)
        /\ masked_grid = None
        /\ trial = << >>
        /\ outcome = "none"

C5_Witness ==
    /\ given_count = 16
    /\ pc = "panic"

\* C10 (as claimed): every cell a trial proposes is nonzero in the working
\* puzzle as it is when the trial begins.
C10_ProposedCellsUnmasked ==
    pc \in VerifyPcs =>
        \A i \in 1..Len(trial) : Cell(before, trial[i][1], trial[i][2]) # 0

----------------------------------------------------------------------------
(* A call of is_safe_placement(grid, row, col, val).                       *)

\* TestSingleGrid with a second 1 in row 0, a second 7 in column 0 and a
\* second 2 in box 0: each has one unit that holds a digit twice.
DupRowGrid == SetCell(TestSingleGrid, 0, 3, 1)
DupColGrid == SetCell(TestSingleGrid, 4, 0, 7)
DupBoxGrid == SetCell(TestSingleGrid, 2, 1, 2)

SafeGrids == {TestSingleGrid, TestManyGrid, FilledGrid,
              DupRowGrid, DupColGrid, DupBoxGrid}

SafeInit ==
    /\ safe_pc = "call"
    /\ safe_grid \in SafeGrids
    /\ safe_row \in Idx
    /\ safe_col \in Idx
    /\ safe_val \in Digits
    /\ safe_result = FALSE
    /\ MaskIdle
    /\ CountIdle
    /\ GenIdle
    /\ JitIdle
    /\ UiIdle

SafeCall ==
    /\ safe_pc = "call"
    /\ safe_result' = is_safe_placement(safe_grid, safe_row, safe_col, safe_val)
    /\ safe_pc' = "returned"
    /\ UNCHANGED << safe_grid, safe_row, safe_col, safe_val >>
    /\ UNCHANGED not_safe_vars

SafeNext == SafeCall

SpecSafe == SafeInit /\ [][SafeNext]_vars

RowCells(r) == {<< r, c >> : c \in Idx}
ColCells(c) == {<< r, c >> : r \in Idx}
BoxCells(r, c) ==
    {<< B * (r \div B) + i, B * (c \div B) + j >> : i \in 0..(B - 1), j \in 0..(B - 1)}

\* v is the digit of some cell of the unit.
OccursIn(g, unit, v) == \E cell \in unit : Cell(g, cell[1], cell[2]) = v

\* Two cells of the unit hold the same nonzero digit.
HasRepeat(g, unit) ==
    \E a \in unit : \E b \in unit :
        /\ a # b
        /\ Cell(g, a[1], a[2]) # 0
        /\ Cell(g, a[1], a[2]) = Cell(g, b[1], b[2])

OccursAround(g, r, c, v) ==
    \/ OccursIn(g, RowCells(r), v)
    \/ OccursIn(g, ColCells(c), v)
    \/ OccursIn(g, BoxCells(r, c), v)

RepeatAround(g, r, c) ==
    \/ HasRepeat(g, RowCells(r))
    \/ HasRepeat(g, ColCells(c))
    \/ HasRepeat(g, BoxCells(r, c))

\* C6 (as claimed): on every grid, also one that holds a digit twice in a
\* row, column or box, is_safe_placement is false exactly when v occurs in
\* row r, column c or the box of (r, c).
C6_FalseIffOccurs ==
    safe_pc = "returned" =>
        (safe_result = FALSE <=> OccursAround(safe_grid, safe_row, safe_col, safe_val))

\* C6 (amended): is_safe_placement is false exactly when v occurs in row r,
\* column c or the box of (r, c), or one of these three units already holds
\* some nonzero digit twice.
C6_FalseIffOccursOrRepeat ==
    safe_pc = "returned" =>
        (safe_result = FALSE <=>
            \/ OccursAround(safe_grid, safe_row, safe_col, safe_val)
            \/ RepeatAround(safe_grid, safe_row, safe_col))

\* A digit that occurs nowhere around the cell is refused because the box of
\* the cell holds another digit twice.
C6_Witness ==
    /\ safe_pc = "returned"
    /\ safe_result = FALSE
    /\ ~OccursAround(safe_grid, safe_row, safe_col, safe_val)
    /\ HasRepeat(safe_grid, BoxCells(safe_row, safe_col))

----------------------------------------------------------------------------
(* A call of solution_count(grid).                                         *)

\* Most empty cells of the grids whose completions are enumerated.
MaxEmpty == 4

\* The cells that are emptied: (1,3) (1,5) (8,3) (8,5), which FilledGrid can
\* exchange (4 5 / 5 4), and (0,0).
CountPool == {<< 1, 3 >>, << 1, 5 >>, << 8, 3 >>, << 8, 5 >>, << 0, 0 >>}

\* The cells that are overwritten with another digit.
OverwriteCells == {<< 1, 3 >>, << 1, 4 >>}

Emptied(g, cells) ==
    [r \in 1..N |-> [c \in 1..N |->
        IF << r - 1, c - 1 >> \in cells THEN 0 ELSE g[r][c]]]

CountGrids ==
    LET emptied == {Emptied(FilledGrid, cells) :
                        cells \in {S \in SUBSET CountPool : Cardinality(S) <= MaxEmpty}}
    IN  emptied
        \cup {SetCell(g, w[1], w[2], d) : g \in emptied, w \in OverwriteCells, d \in Digits}
        \cup {TestSingleGrid, TestManyGrid}

CountInit ==
    /\ count_pc = "call"
    /\ count_grid \in CountGrids
    /\ count_result = 0
    /\ MaskIdle
    /\ SafeIdle
    /\ GenIdle
    /\ JitIdle
    /\ UiIdle

CountCall ==
    /\ count_pc = "call"
    /\ count_result' = solution_count(count_grid)
    /\ count_pc' = "returned"
    /\ UNCHANGED count_grid
    /\ UNCHANGED not_count_vars

CountNext == CountCall

SpecCount == CountInit /\ [][CountNext]_vars

EmptyCells(g) == {cell \in Cells : Cell(g, cell[1], cell[2]) = 0}

\* The nonzero entries of every row, column and box are pairwise distinct.
IsValidGrid(g) ==
    /\ \A r \in Idx : ~HasRepeat(g, RowCells(r))
    /\ \A c \in Idx : ~HasRepeat(g, ColCells(c))
    /\ \A r \in {0, B, 2 * B} : \A c \in {0, B, 2 * B} : ~HasRepeat(g, BoxCells(r, c))

\* The filled grids that agree with g on its nonzero cells, enumerated from
\* all the ways to write digits into the empty cells.
Completions(g) ==
    {full \in {[r \in 1..N |-> [c \in 1..N |->
                    IF g[r][c] = 0 THEN f[<< r - 1, c - 1 >>] ELSE g[r][c]]] :
                f \in [EmptyCells(g) -> Digits]} :
        IsFilledGrid(full)}

\* C7 (as claimed): for every grid, solution_count is the number of filled
\* grids that agree with it on its nonzero cells.
C7_CountIsCompletions ==
    (count_pc = "returned" /\ Cardinality(EmptyCells(count_grid)) <= MaxEmpty) =>
        count_result = Cardinality(Completions(count_grid))

\* C7 (amended): for every grid whose nonzero entries are pairwise distinct
\* in every row, column and box, solution_count is the number of filled
\* grids that agree with it on its nonzero cells, uncapped; the grids of the
\* unit tests give 1 and 5.
C7_CountIsCompletionsOfValid ==
    count_pc = "returned" =>
        /\ (IsValidGrid(count_grid) /\ Cardinality(EmptyCells(count_grid)) <= MaxEmpty)
              => count_result = Cardinality(Completions(count_grid))
        /\ count_grid = TestSingleGrid => count_result = 1
        /\ count_grid = TestManyGrid => count_result = 5

\* A valid grid with two completions is counted as 2.
C7_Witness ==
    /\ count_pc = "returned"
    /\ IsValidGrid(count_grid)
    /\ Cardinality(EmptyCells(count_grid)) <= MaxEmpty
    /\ Cardinality(Completions(count_grid)) = 2
    /\ count_result = 2

----------------------------------------------------------------------------
(* generate_random_filled_grid and fill_grid.                              *)
(*                                                                         *)
(* The calls of fill_grid under way are a stack of frames [row, col,       *)
(* digits, i]: the empty cell of the call, its shuffled digits and the     *)
(* position of the next digit of its for loop.  The grid of a call is the  *)
(* grid of its caller with the caller's digit placed, so gen_grid holds    *)
(* the grid of the innermost call, and a caller gets its own grid back by  *)
(* emptying its cell when the callee returns None.                         *)

\* digits.shuffle(rng) yields one of the first MaxShuffles orders below.
ShuffleTable ==
    << << 1, 2, 3, 4, 5, 6, 7, 8, 9 >>,
       << 9, 8, 7, 6, 5, 4, 3, 2, 1 >>,
       << 3, 8, 7, 6, 2, 4, 9, 5, 1 >>,
       << 9, 7, 8, 2, 1, 3, 6, 4, 5 >> >>

\* Number of orders of ShuffleTable that a shuffle can yield.
MaxShuffles == 3

\* Length of the cycle of shuffles that the random source repeats.
RngPeriod == 4

Shuffles ==
    1..(IF MaxShuffles < Len(ShuffleTable) THEN MaxShuffles ELSE Len(ShuffleTable))

\* The random source: a cycle of orders, the next shuffle first.
RngStreams == [1..RngPeriod -> Shuffles]

\* Mutant of shuffle: the first digit of the order, nine times.
shuffle_one_digit(rng) ==
    [i \in 1..N |-> ShuffleTable[rng[1]][1]]

\* digits.shuffle(rng): the shuffled digits.
shuffle(rng) == ShuffleTable[rng[1]]

\* The random source after a shuffle.
rng_next(rng) == Tail(rng) \o << rng[1] >>

\* let offsets = [0, 3, 6];
Offsets == << 0, 3, 6 >>

EmptyGrid == [r \in 1..N |-> [c \in 1..N |-> 0]]

\* grid[(i / 3) + offset][(i % 3) + offset] = digit, for the 9 digits.
seed_box(g, offset, digits) ==
    [r \in 1..N |-> [c \in 1..N |->
        IF /\ (r - 1) \in offset..(offset + B - 1)
           /\ (c - 1) \in offset..(offset + B - 1)
        THEN digits[B * ((r - 1) - offset) + ((c - 1) - offset) + 1]
        ELSE g[r][c]]]

GenInit ==
    /\ gen_pc = "seed"
    /\ gen_grid = EmptyGrid
    /\ gen_box = 0
    /\ gen_stack = << >>
    /\ gen_rng \in RngStreams
    /\ gen_failed = FALSE
    /\ gen_input = None
    /\ MaskIdle
    /\ SafeIdle
    /\ CountIdle
    /\ JitIdle
    /\ UiIdle

\* One turn of `for offset in offsets`: a box of the diagonal is filled.
GenSeedBox ==
    /\ gen_pc = "seed"
    /\ gen_box < Len(Offsets)
    /\ gen_grid' = seed_box(gen_grid, Offsets[gen_box + 1], shuffle(gen_rng))
    /\ gen_rng' = rng_next(gen_rng)
    /\ gen_box' = gen_box + 1
    /\ UNCHANGED << gen_pc, gen_stack, gen_failed, gen_input >>
    /\ UNCHANGED not_gen_vars

\* match fill_grid(grid, &mut rng): the root call.
GenCallFill ==
    /\ gen_pc = "seed"
    /\ gen_box = Len(Offsets)
    /\ gen_pc' = "call"
    /\ gen_input' = gen_grid
    /\ UNCHANGED << gen_grid, gen_box, gen_stack, gen_rng, gen_failed >>
    /\ UNCHANGED not_gen_vars

\* fill_grid finds an empty cell and shuffles its digits.
FillEnter ==
    /\ gen_pc = "call"
    /\ get_first_empty_index(gen_grid) # None
    /\ LET first == get_first_empty_index(gen_grid)
       IN  gen_stack' = Append(gen_stack,
                [row |-> first[1], col |-> first[2],
                 digits |-> shuffle(gen_rng), i |-> 1])
    /\ gen_rng' = rng_next(gen_rng)
    /\ gen_pc' = "loop"
    /\ UNCHANGED << gen_grid, gen_box, gen_failed, gen_input >>
    /\ UNCHANGED not_gen_vars

\* fill_grid finds no empty cell: Some(grid), which every caller returns in
\* turn, up to generate_random_filled_grid.
FillReturnSome ==
    /\ gen_pc = "call"
    /\ get_first_empty_index(gen_grid) = None
    /\ gen_stack' = << >>
    /\ gen_pc' = "done"
    /\ UNCHANGED << gen_grid, gen_box, gen_rng, gen_failed, gen_input >>
    /\ UNCHANGED not_gen_vars

\* One turn of `for digit in digits` of the innermost call: a safe digit is
\* placed on a copy that is passed to a new call.
FillTryDigit ==
    /\ gen_pc = "loop"
    /\ LET top == gen_stack[Len(gen_stack)]
       IN  /\ top.i <= N
           /\ gen_stack' = [gen_stack EXCEPT ![Len(gen_stack)].i = top.i + 1]
           /\ IF is_safe_placement(gen_grid, top.row, top.col, top.digits[top.i])
              THEN /\ gen_grid' = SetCell(gen_grid, top.row, top.col, top.digits[top.i])
                   /\ gen_pc' = "call"
              ELSE /\ UNCHANGED gen_grid
                   /\ gen_pc' = "loop"
    /\ UNCHANGED << gen_box, gen_rng, gen_failed, gen_input >>
    /\ UNCHANGED not_gen_vars

\* The digits of the innermost call are used up: it returns None.  Its
\* caller goes on with its own grid and its next digit; the root call has
\* no caller but generate_random_filled_grid, which panics.
FillReturnNone ==
    /\ gen_pc = "loop"
    /\ gen_stack[Len(gen_stack)].i > N
    /\ gen_stack' = SubSeq(gen_stack, 1, Len(gen_stack) - 1)
    /\ gen_failed' = TRUE
    /\ IF Len(gen_stack) = 1
       THEN /\ gen_pc' = "panic"
            /\ UNCHANGED gen_grid
       ELSE /\ gen_pc' = "loop"
            /\ LET caller == gen_stack[Len(gen_stack) - 1]
               IN  gen_grid' = SetCell(gen_grid, caller.row, caller.col, 0)
    /\ UNCHANGED << gen_box, gen_rng, gen_input >>
    /\ UNCHANGED not_gen_vars

GenNext ==
    \/ GenSeedBox
    \/ GenCallFill
    \/ FillEnter
    \/ FillReturnSome
    \/ FillTryDigit
    \/ FillReturnNone

SpecGen == GenInit /\ [][GenNext]_vars

\* C8: every grid generate_random_filled_grid returns has no zero cell and
\* holds each digit 1..9 once in every row, column and box.
C8_ReturnedGridIsFilled ==
    gen_pc = "done" => IsFilledGrid(gen_grid)

C8_Witness ==
    /\ gen_pc = "done"
    /\ EmptyCells(gen_grid) = {}
    /\ gen_stack = << >>

\* C9: generate_random_filled_grid never panics with "Unable to fill grid":
\* the root call of fill_grid does not return None.
C9_NeverUnableToFill ==
    /\ gen_pc # "panic"
    /\ (gen_pc = "loop" /\ gen_stack[Len(gen_stack)].i > N) => Len(gen_stack) > 1

\* A grid is returned after calls of fill_grid inside the search failed.
C9_Witness ==
    /\ gen_pc = "done"
    /\ gen_failed

----------------------------------------------------------------------------
(* Claims about the phases and the counters of mask_grid.                  *)

\* The phase a position of mask_grid belongs to, in the order of the source.
phase_rank(p) ==
    CASE p = "start" -> 0
      [] p \in {"quads", "quad_verify"} -> 1
      [] p \in {"pairs", "pair_verify"} -> 2
      [] p \in {"singles", "single_verify"} -> 3
      [] OTHER -> 4

\* C11: mask_grid runs its phases in the order quads, pairs, singles and
\* never goes back to an earlier one; a quad trial starts only with
\* to_remove >= 4 and removed < 20, a pair trial only after the quad loop
\* has exited and with to_remove >= 2 and removed < 30, a single trial only
\* after the pair loop has exited and with to_remove >= 1; a loop is left
\* only when its condition is false.
C11_PhasesInOrder ==
    [][ /\ phase_rank(pc') >= phase_rank(pc)
        /\ pc' = "quad_verify" =>
              pc = "quads" /\ mask_count >= 4 /\ removed < 20
        /\ pc' = "pair_verify" =>
              pc = "pairs" /\ mask_count >= 2 /\ removed < 30
        /\ pc' = "single_verify" => pc = "singles" /\ mask_count >= 1
        /\ (pc = "quads" /\ pc' = "pairs") =>
              ~(mask_count >= 4 /\ removed < 20)
        /\ (pc = "pairs" /\ pc' = "singles") =>
              ~(mask_count >= 2 /\ removed < 30)
      ]_vars

\* A single trial runs although two cells are still to be masked: the pair
\* loop was left because removed had reached 30, after the quad loop was
\* left at 20.
C11_Witness ==
    /\ pc = "single_verify"
    /\ removed = PairLimit
    /\ mask_count >= 2

\* C17 (as claimed): at every loop-iteration boundary of the quad and pair
\* phases removed equals the number of zero cells of the working puzzle;
\* each committed quad lowers the number of nonzero cells by exactly 4 and
\* each committed pair by exactly 2.
C17_RemovedCountsZeroCells ==
    [][ /\ pc' \in {"quads", "pairs"} =>
              removed' = N * N - NonZeroCount(masked_grid')
        /\ (pc = "quad_verify" /\ outcome' = "commit") =>
              NonZeroCount(masked_grid') = NonZeroCount(before) - 4
        /\ (pc = "pair_verify" /\ outcome' = "commit") =>
              NonZeroCount(masked_grid') = NonZeroCount(before) - 2
      ]_vars

\* C18 (as claimed): a rejected trial of any phase leaves the working
\* puzzle equal in all 81 cells to the puzzle before the trial, and leaves
\* to_remove and removed unchanged; no cell that was masked before the trial
\* is a given after it.
C18_RejectedTrialChangesNothing ==
    [][ (pc \in VerifyPcs /\ outcome' = "restore") =>
            /\ masked_grid' = before
            /\ mask_count' = mask_count
            /\ removed' = removed
            /\ \A cell \in Cells :
                  Cell(before, cell[1], cell[2]) = 0 =>
                      Cell(masked_grid', cell[1], cell[2]) = 0
      ]_vars

\* g with the cells of changes, given as << row, col, value >>, overwritten.
Overwrite(g, changes) ==
    [r \in 1..N |->
        [c \in 1..N |->
            LET hits == {k \in 1..Len(changes) :
                            changes[k][1] = r - 1 /\ changes[k][2] = c - 1}
            IN  IF hits = {} THEN g[r][c]
                ELSE changes[CHOOSE k \in hits : TRUE][3]]]

\* Completions of the puzzle the scripted run is stuck at with one given
\* left out, one for each of its givens, written as the cells where they
\* differ from FilledGrid.
AltDiffs ==
    {  << <<0, 0, 1>>, <<0, 1, 2>>, <<0, 4, 6>>, <<1, 2, 7>>, <<1, 4, 2>>,
         <<1, 7, 9>>, <<1, 8, 1>>, <<2, 0, 6>>, <<2, 4, 9>>, <<2, 6, 7>>,
         <<3, 0, 2>>, <<3, 2, 5>>, <<3, 3, 9>>, <<3, 5, 6>>, <<3, 7, 1>>,
         <<3, 8, 3>>, <<4, 3, 3>>, <<4, 5, 2>>, <<4, 6, 9>>, <<4, 8, 6>>,
         <<5, 1, 6>>, <<5, 6, 2>>, <<5, 7, 4>>, <<6, 2, 6>>, <<6, 3, 5>>,
         <<7, 0, 5>>, <<7, 1, 1>>, <<7, 2, 8>>, <<7, 6, 4>>, <<7, 7, 6>>,
         <<7, 8, 7>>, <<8, 0, 7>>, <<8, 2, 2>>, <<8, 3, 6>>, <<8, 6, 5>>,
         <<8, 8, 8>> >>,
       << <<0, 2, 2>>, <<0, 4, 9>>, <<1, 2, 9>>, <<1, 4, 2>> >>,
       << <<0, 3, 8>>, <<0, 4, 7>>, <<0, 5, 2>>, <<3, 4, 2>>, <<3, 5, 8>>,
         <<3, 6, 4>>, <<5, 3, 7>>, <<5, 4, 4>>, <<5, 6, 8>> >>,
       << <<0, 6, 5>>, <<0, 7, 3>>, <<5, 7, 5>>, <<5, 8, 6>>, <<7, 2, 8>>,
         <<7, 6, 7>>, <<7, 8, 5>>, <<8, 2, 7>>, <<8, 6, 3>>, <<8, 7, 6>>,
         <<8, 8, 8>> >>,
       << <<0, 7, 4>>, <<0, 8, 5>>, <<5, 6, 5>>, <<5, 8, 4>>, <<7, 6, 4>>,
         <<7, 7, 5>> >>,
       << <<1, 0, 2>>, <<1, 2, 8>>, <<8, 0, 8>>, <<8, 2, 2>> >>,
       << <<1, 3, 9>>, <<1, 4, 4>>, <<3, 4, 8>>, <<3, 6, 4>>, <<4, 3, 5>>,
         <<4, 4, 9>>, <<5, 3, 4>>, <<5, 6, 8>>, <<6, 2, 8>>, <<6, 4, 5>>,
         <<8, 2, 5>>, <<8, 3, 8>> >>,
       << <<1, 4, 5>>, <<1, 5, 9>>, <<4, 3, 5>>, <<4, 4, 9>>, <<7, 1, 9>>,
         <<7, 2, 8>>, <<7, 5, 5>>, <<7, 6, 7>>, <<7, 8, 6>>, <<8, 1, 6>>,
         <<8, 2, 7>>, <<8, 3, 9>>, <<8, 6, 5>>, <<8, 8, 8>> >>,
       << <<1, 4, 6>>, <<1, 6, 9>>, <<2, 4, 9>>, <<2, 6, 6>> >>,
       << <<2, 1, 4>>, <<2, 2, 5>>, <<6, 1, 5>>, <<6, 2, 4>> >>,
       << <<2, 3, 6>>, <<2, 4, 1>>, <<6, 2, 8>>, <<6, 3, 5>>, <<6, 4, 6>>,
         <<8, 2, 5>>, <<8, 3, 1>>, <<8, 4, 8>> >>,
       << <<2, 4, 3>>, <<2, 5, 6>>, <<4, 3, 5>>, <<4, 4, 6>>, <<4, 5, 9>>,
         <<7, 1, 9>>, <<7, 2, 8>>, <<7, 4, 5>>, <<7, 5, 3>>, <<7, 6, 7>>,
         <<7, 8, 6>>, <<8, 1, 6>>, <<8, 2, 7>>, <<8, 3, 9>>, <<8, 6, 5>>,
         <<8, 8, 8>> >>,
       << <<2, 6, 8>>, <<2, 7, 9>>, <<3, 6, 9>>, <<3, 7, 8>> >>,
       << <<1, 2, 7>>, <<1, 8, 2>>, <<2, 0, 2>>, <<2, 8, 7>>, <<5, 6, 5>>,
         <<5, 7, 4>>, <<5, 8, 6>>, <<7, 0, 7>>, <<7, 2, 8>>, <<7, 4, 1>>,
         <<7, 6, 4>>, <<7, 7, 3>>, <<7, 8, 5>>, <<8, 0, 1>>, <<8, 2, 2>>,
         <<8, 4, 3>>, <<8, 7, 6>>, <<8, 8, 8>> >>,
       << <<2, 0, 5>>, <<2, 1, 7>>, <<3, 0, 7>>, <<3, 1, 5>> >>,
       << <<3, 0, 4>>, <<3, 4, 5>>, <<4, 0, 5>>, <<4, 4, 4>> >>,
       << <<3, 2, 8>>, <<3, 5, 6>>, <<3, 6, 2>>, <<4, 1, 6>>, <<4, 5, 2>>,
         <<4, 6, 8>>, <<7, 1, 8>>, <<7, 8, 6>>, <<8, 2, 6>>, <<8, 8, 8>> >>,
       << <<3, 0, 1>>, <<3, 3, 5>>, <<3, 8, 3>>, <<4, 2, 5>>, <<4, 4, 3>>,
         <<4, 8, 1>>, <<5, 6, 5>>, <<5, 7, 4>>, <<5, 8, 6>>, <<6, 2, 8>>,
         <<6, 4, 5>>, <<7, 0, 5>>, <<7, 4, 1>>, <<7, 6, 4>>, <<7, 7, 3>>,
         <<8, 2, 1>>, <<8, 3, 3>>, <<8, 4, 8>>, <<8, 7, 6>>, <<8, 8, 5>> >>,
       << <<4, 4, 7>>, <<4, 7, 3>>, <<4, 8, 5>>, <<5, 4, 5>>, <<5, 7, 7>>,
         <<5, 8, 6>>, <<8, 7, 6>>, <<8, 8, 3>> >>,
       << <<5, 0, 2>>, <<5, 1, 9>>, <<8, 0, 9>>, <<8, 1, 2>> >>,
       << <<1, 1, 2>>, <<1, 2, 3>>, <<5, 1, 3>>, <<5, 2, 2>> >>,
       << <<3, 3, 8>>, <<3, 5, 1>>, <<3, 6, 2>>, <<3, 8, 3>>, <<4, 4, 3>>,
         <<4, 5, 2>>, <<4, 6, 5>>, <<4, 8, 6>>, <<5, 3, 5>>, <<5, 5, 6>>,
         <<5, 6, 8>>, <<5, 7, 4>>, <<5, 8, 1>>, <<7, 4, 5>>, <<7, 6, 4>>,
         <<7, 7, 3>>, <<8, 3, 3>>, <<8, 7, 6>>, <<8, 8, 5>> >>,
       << <<4, 3, 6>>, <<4, 5, 9>>, <<6, 2, 7>>, <<6, 3, 5>>, <<6, 5, 6>>,
         <<7, 1, 9>>, <<7, 2, 8>>, <<7, 5, 7>>, <<7, 8, 6>>, <<8, 1, 6>>,
         <<8, 2, 5>>, <<8, 3, 9>>, <<8, 8, 8>> >>,
       << <<3, 6, 1>>, <<3, 8, 8>>, <<6, 0, 1>>, <<6, 4, 3>>, <<6, 6, 8>>,
         <<7, 0, 3>>, <<7, 4, 8>>, <<7, 8, 1>> >>,
       << <<6, 0, 2>>, <<6, 7, 3>>, <<8, 0, 3>>, <<8, 7, 2>> >>,
       << <<4, 3, 6>>, <<4, 5, 9>>, <<6, 3, 9>>, <<6, 8, 6>>, <<7, 1, 9>>,
         <<7, 5, 6>>, <<8, 1, 6>>, <<8, 8, 9>> >>,
       << <<0, 3, 2>>, <<0, 4, 7>>, <<3, 3, 8>>, <<3, 4, 3>>, <<3, 6, 4>>,
         <<5, 3, 7>>, <<5, 4, 4>>, <<5, 6, 8>>, <<7, 3, 3>>, <<7, 4, 2>> >>,
       << <<5, 6, 5>>, <<5, 7, 4>>, <<5, 8, 6>>, <<7, 1, 9>>, <<7, 2, 8>>,
         <<7, 5, 4>>, <<7, 6, 7>>, <<7, 7, 6>>, <<7, 8, 5>>, <<8, 1, 6>>,
         <<8, 2, 7>>, <<8, 5, 9>>, <<8, 6, 4>>, <<8, 8, 8>> >> }

\* The filled grids among them that are not FilledGrid.
AltCompletions ==
    {alt \in {Overwrite(FilledGrid, d) : d \in AltDiffs} :
        IsFilledGrid(alt) /\ alt # FilledGrid}

\* No nonzero cell of g can be masked keeping exactly one completion: the
\* filled grid completes g, and whichever given is masked, a filled grid
\* other than it completes the puzzle as well.  A group of cells that holds
\* a given cannot be masked either then.
NoCellCanBeMasked(g) ==
    /\ grid = FilledGrid
    /\ Agrees(g, grid)
    /\ \A given \in Cells :
          Cell(g, given[1], given[2]) # 0 =>
              \E alt \in AltCompletions :
                  Agrees(SetCell(g, given[1], given[2], 0), alt)

\* C12 (as claimed): once the working puzzle of mask_grid is one where no
\* nonzero cell can be masked keeping exactly one completion, to_remove does
\* not decrease and mask_grid does not return.
C12_StuckMakesNoProgress ==
    [][ (/\ pc \in LoopPcs \cup VerifyPcs
         /\ NoCellCanBeMasked(IF pc \in VerifyPcs THEN before
                                                  ELSE masked_grid)) =>
            /\ mask_count' >= mask_count
            /\ pc' # "done"
      ]_vars

----------------------------------------------------------------------------
(* Keys and keybinds (key.rs, keybinds.rs).  A Key is written as the name  *)
(* of its variant, Option<Key>::None as "None"; a Keybind is a record of   *)
(* its key and its modifier; a string that is looked at character by      *)
(* character is the sequence of its characters.                            *)

\* Key::try_from_js, as the pairs << value, key >> of its match arms.
JsKeys ==
    { <<"a", "A">>, <<"A", "A">>, <<"b", "B">>, <<"B", "B">>, <<"c", "C">>,
      <<"C", "C">>, <<"d", "D">>, <<"D", "D">>, <<"e", "E">>, <<"E", "E">>,
      <<"f", "F">>, <<"F", "F">>, <<"g", "G">>, <<"G", "G">>, <<"h", "H">>,
      <<"H", "H">>, <<"i", "I">>, <<"I", "I">>, <<"j", "J">>, <<"J", "J">>,
      <<"k", "K">>, <<"K", "K">>, <<"l", "L">>, <<"L", "L">>, <<"m", "M">>,
      <<"M", "M">>, <<"n", "N">>, <<"N", "N">>, <<"o", "O">>, <<"O", "O">>,
      <<"p", "P">>, <<"P", "P">>, <<"q", "Q">>, <<"Q", "Q">>, <<"r", "R">>,
      <<"R", "R">>, <<"s", "S">>, <<"S", "S">>, <<"t", "T">>, <<"T", "T">>,
      <<"u", "U">>, <<"U", "U">>, <<"v", "V">>, <<"V", "V">>, <<"w", "W">>,
      <<"W", "W">>, <<"x", "X">>, <<"X", "X">>, <<"y", "Y">>, <<"Y", "Y">>,
      <<"z", "Z">>, <<"Z", "Z">>, <<"0", "Zero">>, <<"1", "One">>,
      <<"2", "Two">>, <<"3", "Three">>, <<"4", "Four">>, <<"5", "Five">>,
      <<"6", "Six">>, <<"7", "Seven">>, <<"8", "Eight">>, <<"9", "Nine">>,
      <<" ", "Space">>, <<"ArrowUp", "ArrowUp">>,
      <<"ArrowDown", "ArrowDown">>, <<"ArrowLeft", "ArrowLeft">>,
      <<"ArrowRight", "ArrowRight">>, <<"Escape", "Escape">>,
      <<"Enter", "Enter">>, <<"Backspace", "Backspace">>, <<"Tab", "Tab">>,
      <<"CapsLock", "CapsLock">>, <<"Shift", "Shift">>, <<"Alt", "Alt">>,
      <<"Control", "Control">>, <<"Meta", "Meta">>,
      <<"ContextMenu", "ContextMenu">> }

\* Key::try_from_js; "Err" for Err(KeyParseError::Js(value)).
try_from_js(value) ==
    IF \E arm \in JsKeys : arm[1] = value
    THEN (CHOOSE arm \in JsKeys : arm[1] = value)[2]
    ELSE "Err"

\* .unwrap_or(Key::Zero)
unwrap_or_zero(key) == IF key = "Err" THEN "Zero" ELSE key

is_modifier(key) == key \in {"Shift", "Control", "Alt", "Meta"}

\* Option<Keybind>::None
NoKeybind == [key |-> "None", modifier |-> "None"]

starts_with(str, prefix) ==
    /\ Len(str) >= Len(prefix)
    /\ SubSeq(str, 1, Len(prefix)) = prefix

is_ascii_digit(ch) == ch \in {"0", "1", "2", "3", "4", "5", "6", "7", "8", "9"}

----------------------------------------------------------------------------
(* GameState: the keydown callback of with_keybind_manager, peek_last_key  *)
(* and consume_last_key.  The callback and the methods run one after the   *)
(* other on the one thread of the page, so try_borrow and try_borrow_mut   *)
(* succeed at the first turn of their loops.                               *)

\* The keydown events of the model: key and code of the KeyboardEvent and
\* its four modifier flags.
KeyEvents ==
    { [key |-> "a", code |-> << "K", "e", "y", "A" >>,
       shift |-> FALSE, ctrl |-> FALSE, alt |-> FALSE, meta |-> FALSE],
      [key |-> "A", code |-> << "K", "e", "y", "A" >>,
       shift |-> TRUE, ctrl |-> FALSE, alt |-> FALSE, meta |-> FALSE],
      [key |-> "!", code |-> << "D", "i", "g", "i", "t", "1" >>,
       shift |-> TRUE, ctrl |-> FALSE, alt |-> FALSE, meta |-> FALSE],
      [key |-> "1", code |-> << "D", "i", "g", "i", "t", "1" >>,
       shift |-> FALSE, ctrl |-> FALSE, alt |-> TRUE, meta |-> FALSE],
      [key |-> "1", code |-> << "D", "i", "g", "i", "t", "1" >>,
       shift |-> FALSE, ctrl |-> FALSE, alt |-> FALSE, meta |-> TRUE],
      [key |-> "End", code |-> << "N", "u", "m", "p", "a", "d", "1" >>,
       shift |-> TRUE, ctrl |-> FALSE, alt |-> FALSE, meta |-> FALSE],
      [key |-> "Enter", code |-> << "N", "u", "m", "p", "a", "d", "E", "n", "t", "e", "r" >>,
       shift |-> TRUE, ctrl |-> FALSE, alt |-> FALSE, meta |-> FALSE],
      [key |-> "z", code |-> << "K", "e", "y", "Z" >>,
       shift |-> FALSE, ctrl |-> TRUE, alt |-> TRUE, meta |-> TRUE],
      [key |-> "F5", code |-> << "F", "5" >>,
       shift |-> FALSE, ctrl |-> FALSE, alt |-> FALSE, meta |-> FALSE],
      [key |-> "ArrowDown", code |-> << "A", "r", "r", "o", "w", "D", "o", "w", "n" >>,
       shift |-> FALSE, ctrl |-> FALSE, alt |-> FALSE, meta |-> FALSE],
      [key |-> " ", code |-> << "S", "p", "a", "c", "e" >>,
       shift |-> FALSE, ctrl |-> FALSE, alt |-> FALSE, meta |-> TRUE],
      [key |-> "Shift", code |-> << "S", "h", "i", "f", "t", "L", "e", "f", "t" >>,
       shift |-> TRUE, ctrl |-> FALSE, alt |-> FALSE, meta |-> FALSE],
      [key |-> "Control", code |-> << "C", "o", "n", "t", "r", "o", "l", "L", "e", "f", "t" >>,
       shift |-> FALSE, ctrl |-> TRUE, alt |-> FALSE, meta |-> FALSE],
      [key |-> "Alt", code |-> << "A", "l", "t", "R", "i", "g", "h", "t" >>,
       shift |-> FALSE, ctrl |-> FALSE, alt |-> TRUE, meta |-> FALSE],
      [key |-> "Meta", code |-> << "M", "e", "t", "a", "L", "e", "f", "t" >>,
       shift |-> FALSE, ctrl |-> FALSE, alt |-> FALSE, meta |-> TRUE],
      [key |-> "Shift", code |-> << "S", "h", "i", "f", "t", "R", "i", "g", "h", "t" >>,
       shift |-> TRUE, ctrl |-> TRUE, alt |-> FALSE, meta |-> FALSE] }

\* No keydown yet.
NoEvent ==
    [key |-> "None", code |-> << >>,
     shift |-> FALSE, ctrl |-> FALSE, alt |-> FALSE, meta |-> FALSE]

\* The key of the event: the digit of the code for Shift with a Digit or
\* Numpad code that ends in a digit, else the key of e.key(), Zero when
\* e.key() is not known.
event_key(e) ==
    LET key_digit == e.code[Len(e.code)]
        edge_key ==
            IF /\ e.shift
               /\ \/ starts_with(e.code, << "D", "i", "g", "i", "t" >>)
                  \/ starts_with(e.code, << "N", "u", "m", "p", "a", "d" >>)
               /\ is_ascii_digit(key_digit)
            THEN try_from_js(key_digit)
            ELSE "None"
    IN  IF edge_key = "None" THEN unwrap_or_zero(try_from_js(e.key))
        ELSE edge_key

\* Mutant of event_modifier: Meta is looked at first.
event_modifier_meta_first(e) ==
    IF e.meta THEN "Meta"
    ELSE IF e.shift THEN "Shift"
    ELSE IF e.ctrl THEN "Control"
    ELSE IF e.alt THEN "Alt"
    ELSE "None"

event_modifier(e) ==
    IF e.shift THEN "Shift"
    ELSE IF e.ctrl THEN "Control"
    ELSE IF e.alt THEN "Alt"
    ELSE IF e.meta THEN "Meta"
    ELSE "None"

\* Mutant of consumed: consume_last_key leaves the key in place.
consumed_kept(x) == x

\* `*x = None` of consume_last_key.
consumed(x) == NoKeybind

\* with_keybind_manager has returned: last_key is RefCell::new(None).
GameInit ==
    /\ game_pc = "run"
    /\ last_key = NoKeybind
    /\ game_op = "none"
    /\ game_ret = NoKeybind
    /\ game_down = NoKeybind
    /\ game_event = NoEvent
    /\ MaskIdle
    /\ SafeIdle
    /\ CountIdle
    /\ GenIdle
    /\ JitIdle
    /\ UpdIdle
    /\ KbIdle
    /\ ParseIdle
    /\ PlayIdle

\* The keydown callback runs for the event e.
GameKeydown ==
    /\ game_pc = "run"
    /\ \E e \in KeyEvents :
          LET key == event_key(e)
          IN  /\ game_event' = e
              /\ IF is_modifier(key)
                 THEN UNCHANGED << last_key, game_down >>
                 ELSE /\ last_key' = [key |-> key, modifier |-> event_modifier(e)]
                      /\ game_down' = [key |-> key, modifier |-> event_modifier(e)]
    /\ game_op' = "keydown"
    /\ UNCHANGED << game_pc, game_ret >>
    /\ UNCHANGED not_game_vars

GamePeek ==
    /\ game_pc = "run"
    /\ game_ret' = last_key
    /\ game_op' = "peek"
    /\ UNCHANGED << game_pc, last_key, game_down, game_event >>
    /\ UNCHANGED not_game_vars

GameConsume ==
    /\ game_pc = "run"
    /\ game_ret' = last_key
    /\ last_key' = consumed(last_key)
    /\ game_down' = NoKeybind
    /\ game_op' = "consume"
    /\ UNCHANGED << game_pc, game_event >>
    /\ UNCHANGED not_game_vars

GameNext ==
    \/ GameKeydown
    \/ GamePeek
    \/ GameConsume

SpecGame == GameInit /\ [][GameNext]_vars

\* C13: consume_last_key returns the keybind stored by the latest keydown
\* that was not ignored and clears it; peek_last_key returns it without
\* clearing it; a consume or peek that follows a consume with no keydown in
\* between returns None; a consume or peek that follows a peek with no
\* keydown in between returns what the peek returned.
C13_PeekAndConsume ==
    [][ /\ game_op' = "consume" =>
              game_ret' = game_down /\ last_key' = NoKeybind
        /\ game_op' = "peek" =>
              game_ret' = game_down /\ last_key' = last_key
        /\ (game_op' \in {"peek", "consume"} /\ game_op = "consume") =>
              game_ret' = NoKeybind
        /\ (game_op' \in {"peek", "consume"} /\ game_op = "peek") =>
              game_ret' = game_ret
      ]_vars

\* A consume has returned the keybind of Shift with the key of code Digit1.
C13_Witness ==
    /\ game_op = "consume"
    /\ game_ret = [key |-> "One", modifier |-> "Shift"]
    /\ last_key = NoKeybind

----------------------------------------------------------------------------
(* GameState::update for Action::MoveRow(n, safe) and MoveCol(n, safe):    *)
(* consume_last_key has returned a keybind and kb_manager has the action   *)
(* upd_action for it.                                                      *)

\* The values of an i8.
I8 == (-(2 ^ 7))..(2 ^ 7 - 1)

\* The i8 that a sum becomes when the addition wraps.
wrap_i8(sum) == ((sum + 2 ^ 7) % 2 ^ 8) - 2 ^ 7

\* new_pos.clamp(0, 8)
clamp(x, min, max) == IF x < min THEN min ELSE IF x > max THEN max ELSE x

\* The arm of MoveRow and of MoveCol for the coordinate pos, given new_pos.
moved(pos, new_pos, safe) ==
    IF safe
    THEN (IF new_pos \in 0..(N - 1) THEN new_pos ELSE pos)
    ELSE clamp(new_pos, 0, N - 1)

MoveActions ==
    [tag : {"MoveRow", "MoveCol"}, n : I8, safe : BOOLEAN]

UpdInit ==
    /\ upd_pc = "call"
    /\ upd_action \in MoveActions
    /\ focused_row \in Idx
    /\ focused_col \in Idx
    /\ upd_from = << focused_row, focused_col >>
    /\ MaskIdle
    /\ SafeIdle
    /\ CountIdle
    /\ GenIdle
    /\ JitIdle
    /\ GameIdle
    /\ KbIdle
    /\ ParseIdle
    /\ PlayIdle

\* `self.focused_row as i8 + n` is an addition of two i8: when the sum is
\* not an i8 it panics in a build with overflow checks and wraps in a build
\* without them.
UpdMove ==
    /\ upd_pc = "call"
    /\ LET pos == IF upd_action.tag = "MoveRow" THEN focused_row
                  ELSE focused_col
           sum == pos + upd_action.n
       IN  \E overflow_checks \in BOOLEAN :
              IF sum \notin I8 /\ overflow_checks
              THEN /\ upd_pc' = "panic"
                   /\ UNCHANGED << focused_row, focused_col >>
              ELSE /\ upd_pc' = "done"
                   /\ IF upd_action.tag = "MoveRow"
                      THEN /\ focused_row' =
                                moved(pos, wrap_i8(sum), upd_action.safe)
                           /\ UNCHANGED focused_col
                      ELSE /\ focused_col' =
                                moved(pos, wrap_i8(sum), upd_action.safe)
                           /\ UNCHANGED focused_row
    /\ UNCHANGED << upd_action, upd_from >>
    /\ UNCHANGED not_upd_vars

UpdNext == UpdMove

SpecUpd == UpdInit /\ [][UpdNext]_vars

\* C14 (as claimed): for every n of the i8 range and every coordinate p in
\* 0..8, update with MoveRow(n, safe) or MoveCol(n, safe) returns and makes
\* the coordinate p + n if that is within 0..8 and leaves it unchanged
\* otherwise when safe, and makes it p + n clamped to 0..8 when not safe,
\* where p + n is the sum of the integers; the other coordinate is
\* unchanged.
C14_MoveWithinGrid ==
    upd_pc \in {"done", "panic"} =>
        LET row == upd_action.tag = "MoveRow"
            p == IF row THEN upd_from[1] ELSE upd_from[2]
            new == IF row THEN focused_row ELSE focused_col
            other == IF row THEN focused_col ELSE focused_row
            sum == p + upd_action.n
        IN  /\ upd_pc = "done"
            /\ other = (IF row THEN upd_from[2] ELSE upd_from[1])
            /\ upd_action.safe =>
                  new = (IF 0 <= sum /\ sum <= 8 THEN sum ELSE p)
            /\ ~upd_action.safe =>
                  new = (IF sum < 0 THEN 0 ELSE IF sum > 8 THEN 8 ELSE sum)

----------------------------------------------------------------------------
(* Keybind: PartialEq and Hash; KeybindManager: the HashMap of with_config *)
(* and get_action.  The map is the sequence of its entries; a lookup finds *)
(* an entry when the hasher was fed the same values for its key as for the *)
(* key looked up and the two keys are equal by PartialEq.                  *)

\* impl PartialEq for Keybind
keybind_eq(self, other) ==
    IF self.key # other.key THEN FALSE
    ELSE IF self.modifier = other.modifier THEN TRUE
    ELSE \/ self.modifier = "Alt" /\ other.modifier = "Meta"
         \/ self.modifier = "Meta" /\ other.modifier = "Alt"

\* Mutant of keybind_hash: the modifier is hashed as it is.
keybind_hash_as_is(self) == << self.key, self.modifier >>

\* impl Hash for Keybind: the values fed to the hasher, in order.
keybind_hash(self) ==
    << self.key, IF self.modifier = "Meta" THEN "Alt" ELSE self.modifier >>

\* The entries of the map that a lookup of keybind finds.
found(map, keybind) ==
    {i \in 1..Len(map) :
        /\ keybind_hash(map[i].bind) = keybind_hash(keybind)
        /\ keybind_eq(map[i].bind, keybind)}

\* binds.insert(bind, action): the value of the entry found is replaced,
\* else an entry is added.
insert(map, bind, action) ==
    IF found(map, bind) = {}
    THEN Append(map, [bind |-> bind, action |-> action])
    ELSE [map EXCEPT ![CHOOSE i \in found(map, bind) : TRUE].action = action]

\* self.binds.get(keybind); "None" for Option::None.
get_action(map, keybind) ==
    IF found(map, keybind) = {} THEN "None"
    ELSE map[CHOOSE i \in found(map, keybind) : TRUE].action

\* Most lines of a config in the model.
MaxBinds == 2

Keybinds ==
    [key : {"One", "A"},
     modifier : {"None", "Shift", "Control", "Alt", "Meta"}]

BoundActions == {"ClearCell", "CycleColor"}

\* with_config starts from HashMap::new().
KbInit ==
    /\ kb_pc = "built"
    /\ binds = << >>
    /\ kb_query = NoKeybind
    /\ kb_ret = "None"
    /\ MaskIdle
    /\ SafeIdle
    /\ CountIdle
    /\ GenIdle
    /\ JitIdle
    /\ GameIdle
    /\ UpdIdle
    /\ ParseIdle
    /\ PlayIdle

\* One line of the config: binds.insert(bind, action).
KbInsert ==
    /\ Len(binds) < MaxBinds
    /\ \E bind \in Keybinds : \E action \in BoundActions :
          binds' = insert(binds, bind, action)
    /\ kb_pc' = "built"
    /\ UNCHANGED << kb_query, kb_ret >>
    /\ UNCHANGED not_kb_vars

KbGetAction ==
    /\ \E keybind \in Keybinds :
          /\ kb_query' = keybind
          /\ kb_ret' = get_action(binds, keybind)
    /\ kb_pc' = "got"
    /\ UNCHANGED binds
    /\ UNCHANGED not_kb_vars

KbNext ==
    \/ KbInsert
    \/ KbGetAction

SpecKb == KbInit /\ [][KbNext]_vars

\* The keys are equal and the modifiers are equal or one is Alt and the
\* other Meta.
SameOrAltMeta(a, b) ==
    /\ a.key = b.key
    /\ \/ a.modifier = b.modifier
       \/ {a.modifier, b.modifier} = {"Alt", "Meta"}

\* C15: Keybind equality is SameOrAltMeta; it is reflexive, symmetric and
\* transitive; equal keybinds feed the same values to the hasher; and
\* get_action returns the action of the binding whose keybind is
\* SameOrAltMeta to the one looked up, None when there is no such binding.
C15_AltMetaInterchangeable ==
    /\ \A a \in Keybinds : \A b \in Keybinds :
          /\ keybind_eq(a, b) <=> SameOrAltMeta(a, b)
          /\ keybind_eq(a, a)
          /\ keybind_eq(a, b) => keybind_eq(b, a)
          /\ keybind_eq(a, b) => keybind_hash(a) = keybind_hash(b)
          /\ \A c \in Keybinds :
                (keybind_eq(a, b) /\ keybind_eq(b, c)) => keybind_eq(a, c)
    /\ kb_pc = "got" =>
          LET same == {i \in 1..Len(binds) :
                          SameOrAltMeta(binds[i].bind, kb_query)}
          IN  /\ same = {} => kb_ret = "None"
              /\ \A i \in same : kb_ret = binds[i].action

\* A binding registered with Alt has been found by a lookup with Meta.
C15_Witness ==
    /\ kb_pc = "got"
    /\ kb_query.modifier = "Meta"
    /\ \E i \in 1..Len(binds) :
          /\ binds[i].bind.key = kb_query.key
          /\ binds[i].bind.modifier = "Alt"
          /\ kb_ret = binds[i].action

----------------------------------------------------------------------------
(* Action::try_from(String) and parse_action_string.  A string is the      *)
(* sequence of its characters.                                             *)

\* str::split(sep): the parts between the separators, at least one part.
RECURSIVE split(_, _)
split(s, sep) ==
    IF \A i \in 1..Len(s) : s[i] # sep THEN << s >>
    ELSE LET i == CHOOSE k \in 1..Len(s) :
                      s[k] = sep /\ \A j \in 1..(k - 1) : s[j] # sep
         IN  << SubSeq(s, 1, i - 1) >> \o split(SubSeq(s, i + 1, Len(s)), sep)

\* The characters of the strings of the model: U+0009..U+000D, U+0020..U+007E
\* but U+0060, U+0085 and U+00A0..U+00FF.  str::trim and str::to_lowercase
\* are modelled on these characters; a string with another character is
\* not an input of the model.
WhiteSpace ==
    {"\t", "\n", "", "\f", "\r", " ", "", " "}

Chars ==
    WhiteSpace
    \cup {"!", "\"", "#", "$", "%", "&", "'", "(", ")", "*", "+", ",", "-",
          ".", "/", "0", "1", "2", "3", "4", "5", "6", "7", "8", "9", ":",
          ";", "<", "=", ">", "?", "@", "A", "B", "C", "D", "E", "F", "G",
          "H", "I", "J", "K", "L", "M", "N", "O", "P", "Q", "R", "S", "T",
          "U", "V", "W", "X", "Y", "Z", "[", "\\", "]", "^", "_", "a", "b",
          "c", "d", "e", "f", "g", "h", "i", "j", "k", "l", "m", "n", "o",
          "p", "q", "r", "s", "t", "u", "v", "w", "x", "y", "z", "{", "|",
          "}", "~"}
    \cup {"¡", "¢", "£", "¤", "¥", "¦", "§", "¨", "©", "ª", "«", "¬", "­",
          "®", "¯", "°", "±", "²", "³", "´", "µ", "¶", "·", "¸", "¹", "º",
          "»", "¼", "½", "¾", "¿", "À", "Á", "Â", "Ã", "Ä", "Å", "Æ", "Ç",
          "È", "É", "Ê", "Ë", "Ì", "Í", "Î", "Ï", "Ð", "Ñ", "Ò", "Ó", "Ô",
          "Õ", "Ö", "×", "Ø", "Ù", "Ú", "Û", "Ü", "Ý", "Þ", "ß", "à", "á",
          "â", "ã", "ä", "å", "æ", "ç", "è", "é", "ê", "ë", "ì", "í", "î",
          "ï", "ð", "ñ", "ò", "ó", "ô", "õ", "ö", "÷", "ø", "ù", "ú", "û",
          "ü", "ý", "þ", "ÿ"}

RECURSIVE trim_start(_)
trim_start(s) ==
    IF s # << >> /\ s[1] \in WhiteSpace THEN trim_start(Tail(s)) ELSE s

RECURSIVE trim_end(_)
trim_end(s) ==
    IF s # << >> /\ s[Len(s)] \in WhiteSpace
    THEN trim_end(SubSeq(s, 1, Len(s) - 1))
    ELSE s

\* str::trim: the characters with the property White_Space are removed at
\* both ends.
trim(s) == trim_end(trim_start(s))

\* The characters of Chars that have a lower-case form of their own, and
\* that form.
UpperCase ==
    << "A", "B", "C", "D", "E", "F", "G", "H", "I", "J", "K", "L", "M",
       "N", "O", "P", "Q", "R", "S", "T", "U", "V", "W", "X", "Y", "Z",
       "À", "Á", "Â", "Ã", "Ä", "Å", "Æ", "Ç", "È", "É", "Ê", "Ë", "Ì",
       "Í", "Î", "Ï", "Ð", "Ñ", "Ò", "Ó", "Ô", "Õ", "Ö", "Ø", "Ù", "Ú",
       "Û", "Ü", "Ý", "Þ" >>
LowerCase ==
    << "a", "b", "c", "d", "e", "f", "g", "h", "i", "j", "k", "l", "m",
       "n", "o", "p", "q", "r", "s", "t", "u", "v", "w", "x", "y", "z",
       "à", "á", "â", "ã", "ä", "å", "æ", "ç", "è", "é", "ê", "ë", "ì",
       "í", "î", "ï", "ð", "ñ", "ò", "ó", "ô", "õ", "ö", "ø", "ù", "ú",
       "û", "ü", "ý", "þ" >>

\* str::to_lowercase
to_lowercase(s) ==
    [i \in 1..Len(s) |->
        IF \E k \in 1..Len(UpperCase) : UpperCase[k] = s[i]
        THEN LowerCase[CHOOSE k \in 1..Len(UpperCase) : UpperCase[k] = s[i]]
        ELSE s[i]]

AsciiDigits == << "0", "1", "2", "3", "4", "5", "6", "7", "8", "9" >>

RECURSIVE digits_value(_)
digits_value(s) ==
    IF s = << >> THEN 0
    ELSE 10 * digits_value(SubSeq(s, 1, Len(s) - 1))
            + ((CHOOSE k \in 1..Len(AsciiDigits) : AsciiDigits[k] = s[Len(s)]) - 1)

\* str::parse for an integer type of the range min..max, signed or not:
\* an optional sign ("-" for a signed type only), then digits only, and
\* the value within the range of the type.
parse_int(s, signed, min, max) ==
    LET negative == signed /\ s # << >> /\ s[1] = "-"
        digits == IF s # << >> /\ (s[1] = "+" \/ negative) THEN Tail(s) ELSE s
        value == IF negative THEN 0 - digits_value(digits) ELSE digits_value(digits)
    IN  IF \/ digits = << >>
           \/ \E i \in 1..Len(digits) : \A k \in 1..Len(AsciiDigits) : AsciiDigits[k] # digits[i]
        THEN [ok |-> FALSE, value |-> 0]
        ELSE IF value < min \/ value > max
             THEN [ok |-> FALSE, value |-> 0]
             ELSE [ok |-> TRUE, value |-> value]

U8_MAX == 2^8 - 1

parse_u8(s) == parse_int(s, FALSE, 0, U8_MAX)

parse_i8(s) == parse_int(s, TRUE, -(2^7), 2^7 - 1)

\* Option<(String, Vec<String>)>; unreachable!() is reached when nothing
\* follows the opening bracket.
parse_action_string(value) ==
    LET parts == split(value, "(")
        name == parts[1]
        args == parts[2]
        popped == SubSeq(args, 1, Len(args) - 1)
        none == [some |-> FALSE, panic |-> FALSE, name |-> << >>, args |-> << >>]
    IN  IF Len(parts) < 2 THEN none
        ELSE IF Len(parts) > 2 THEN none
        ELSE IF args = << >> THEN [none EXCEPT !.panic = TRUE]
        ELSE IF args[Len(args)] # ")" THEN none
        ELSE [some |-> TRUE, panic |-> FALSE, name |-> name,
              args |-> IF popped = << >> THEN << >>
                       ELSE LET pieces == split(popped, ",")
                            IN  [i \in 1..Len(pieces) |-> trim(pieces[i])]]

\* An Action, with 0 and FALSE for the fields its variant does not have;
\* Err(ActionParsingError) and the panic are the two other outcomes.
MkAction(tag, n, safe) == [tag |-> tag, n |-> n, safe |-> safe]

ActionParsingError == MkAction("ActionParsingError", 0, FALSE)

ActionPanic == MkAction("panic", 0, FALSE)

NoArgNames ==
    << << << "c", "y", "c", "l", "e", "c", "o", "l", "o", "r" >>, "CycleColor" >>,
       << << "c", "l", "e", "a", "r", "a", "l", "l", "c", "o", "l", "o", "r", "s" >>, "ClearAllColors" >>,
       << << "c", "l", "e", "a", "r", "c", "e", "l", "l" >>, "ClearCell" >> >>

OneArgNames ==
    << << << "w", "r", "i", "t", "e", "c", "e", "l", "l" >>, "WriteCell" >>,
       << << "s", "e", "t", "c", "a", "n", "d", "i", "d", "a", "t", "e" >>, "SetCandidate" >>,
       << << "r", "e", "m", "o", "v", "e", "c", "a", "n", "d", "i", "d", "a", "t", "e" >>, "RemoveCandidate" >>,
       << << "t", "o", "g", "g", "l", "e", "c", "a", "n", "d", "i", "d", "a", "t", "e" >>, "ToggleCandidate" >> >>

TwoArgNames ==
    << << << "m", "o", "v", "e", "r", "o", "w" >>, "MoveRow" >>,
       << << "m", "o", "v", "e", "c", "o", "l" >>, "MoveCol" >> >>

\* The arm of a match on the name; 0 when no arm matches.
arm(names, name) ==
    IF \E k \in 1..Len(names) : names[k][1] = name
    THEN CHOOSE k \in 1..Len(names) : names[k][1] = name
    ELSE 0

\* impl TryFrom<String> for Action
try_from(value) ==
    LET parsed == parse_action_string(value)
        name == to_lowercase(parsed.name)
        args == parsed.args
    IN  IF parsed.panic THEN ActionPanic
        ELSE IF ~parsed.some THEN ActionParsingError
        ELSE IF args = << >>
        THEN IF arm(NoArgNames, name) = 0 THEN ActionParsingError
             ELSE MkAction(NoArgNames[arm(NoArgNames, name)][2], 0, FALSE)
        ELSE IF Len(args) = 1
        THEN LET arg == parse_u8(args[1])
             IN  IF arm(OneArgNames, name) = 0 THEN ActionParsingError
                 ELSE IF arg.ok /\ arg.value \in 1..9
                      THEN MkAction(OneArgNames[arm(OneArgNames, name)][2], arg.value, FALSE)
                      ELSE ActionParsingError
        ELSE IF Len(args) = 2
        THEN LET a0 == parse_i8(args[1])
             IN  IF arm(TwoArgNames, name) = 0 THEN ActionParsingError
                 ELSE IF a0.ok
                      THEN MkAction(TwoArgNames[arm(TwoArgNames, name)][2], a0.value,
                                    to_lowercase(args[2]) = << "t", "r", "u", "e" >>)
                      ELSE ActionParsingError
        ELSE ActionParsingError

\* Valid action calls in the compact form, as the name and the arguments.
CompactCalls ==
    {<< NoArgNames[k][1], << >> >> : k \in 1..Len(NoArgNames)}
    \cup {<< OneArgNames[k][1], << a >> >> :
             k \in 1..Len(OneArgNames), a \in {<< "5" >>}}
    \cup {<< TwoArgNames[k][1], << a, b >> >> :
             k \in 1..Len(TwoArgNames), a \in {<< "1" >>, << "-", "1" >>},
             b \in {<< "t", "r", "u", "e" >>, << "f", "a", "l", "s", "e" >>}}

\* The name with the capitals of the variant: the name in lower case is
\* the variant's name in lower case.
CamelCase ==
    {<< "C", "y", "c", "l", "e", "C", "o", "l", "o", "r" >>,
     << "C", "l", "e", "a", "r", "A", "l", "l", "C", "o", "l", "o", "r", "s" >>,
     << "C", "l", "e", "a", "r", "C", "e", "l", "l" >>,
     << "W", "r", "i", "t", "e", "C", "e", "l", "l" >>,
     << "S", "e", "t", "C", "a", "n", "d", "i", "d", "a", "t", "e" >>,
     << "R", "e", "m", "o", "v", "e", "C", "a", "n", "d", "i", "d", "a", "t", "e" >>,
     << "T", "o", "g", "g", "l", "e", "C", "a", "n", "d", "i", "d", "a", "t", "e" >>,
     << "M", "o", "v", "e", "R", "o", "w" >>,
     << "M", "o", "v", "e", "C", "o", "l" >>}

name_cases(name) ==
    {name} \cup {c \in CamelCase : to_lowercase(c) = name}

\* Spaces before the opening bracket, and before and after an argument.
Gaps == {<< >>, << " " >>}

Pads == {<< << >>, << >> >>, << << " " >>, << >> >>, << << " " >>, << " ", " " >> >>}

RECURSIVE join_args(_, _)
join_args(args, pad) ==
    IF args = << >> THEN << >>
    ELSE pad[1] \o args[1] \o pad[2]
           \o (IF Len(args) > 1 THEN << "," >> ELSE << >>)
           \o join_args(Tail(args), pad)

render(name, gap, args, pad) ==
    name \o gap \o << "(" >> \o join_args(args, pad) \o << ")" >>

\* The compact form of a call: the name in lower case and no space.
compact_form(call) == render(call[1], << >>, call[2], << << >>, << >> >>)

\* The valid calls written with optional spacing and capitals in the name,
\* each with its compact form.
WrittenCalls ==
    UNION {{[value |-> render(name, gap, call[2], pad), compact |-> compact_form(call)] :
               name \in name_cases(call[1]), gap \in Gaps, pad \in Pads} :
           call \in CompactCalls}

\* Other strings: malformed calls, arguments at the edges of their types,
\* and calls with white space other than the space and with capitals
\* outside A..Z.
OtherStrings ==
    {<< "f", "o", "o", "(", ")" >>,
     << "c", "l", "e", "a", "r", "c", "e", "l", "l" >>,
     << "c", "l", "e", "a", "r", "c", "e", "l", "l", "(" >>,
     << "c", "l", "e", "a", "r", "c", "e", "l", "l", "(", " ", ")" >>,
     << "c", "l", "e", "a", "r", "c", "e", "l", "l", "(", "1", ")" >>,
     << "m", "o", "v", "e", "r", "o", "w", "(", "1", ",", "t", "r", "u", "e" >>,
     << "m", "o", "v", "e", "r", "o", "w", "(", "(", "1", ",", "t", "r", "u", "e", ")" >>,
     << "w", "r", "i", "t", "e", "c", "e", "l", "l", "(", "0", ")" >>,
     << "w", "r", "i", "t", "e", "c", "e", "l", "l", "(", "1", "0", ")" >>,
     << "w", "r", "i", "t", "e", "c", "e", "l", "l", "(", "+", "5", ")" >>,
     << "w", "r", "i", "t", "e", "c", "e", "l", "l", "(", "-", "5", ")" >>,
     << "w", "r", "i", "t", "e", "c", "e", "l", "l", "(", "x", ")" >>,
     << "w", "r", "i", "t", "e", "c", "e", "l", "l", "(", ")" >>,
     << "m", "o", "v", "e", "r", "o", "w", "(", "2", "0", "0", ",", "t", "r", "u", "e", ")" >>,
     << "m", "o", "v", "e", "r", "o", "w", "(", "-", "1", "2", "8", ",", "y", "e", "s", ")" >>,
     << "m", "o", "v", "e", "r", "o", "w", "(", "+", ",", "t", "r", "u", "e", ")" >>,
     << "m", "o", "v", "e", "r", "o", "w", "(", "1", ",", "t", "r", "u", "e", ",", "3", ")" >>,
     << "m", "o", "v", "e", "c", "o", "l", "(", "1", ")" >>,
     << "(", "5", ")" >>,
     << "w", "r", "i", "t", "e", "c", "e", "l", "l", "(", "\t", "5", ")" >>,
     << "m", "o", "v", "e", "r", "o", "w", "(", "1", ",", "\t", "t", "r", "u", "e", ")" >>,
     << "m", "o", "v", "e", "r", "o", "w", "(", "\n", "1", ",", "t", "r", "u", "e", ")" >>,
     << "c", "l", "e", "a", "r", "c", "e", "l", "l", "(", "\t", ")" >>,
     << "w", "r", "i", "t", "e", "c", "e", "l", "l", "(", " ", "5", "\r", "\n", ")" >>,
     << "W", "R", "I", "T", "E", "É", "C", "E", "L", "L", "(", "5", ")" >>,
     << "É", "(", ")" >>,
     << "m", "o", "v", "e", "c", "o", "l", "(", "-", "1", ",", "", "T", "R", "U", "E", "", ")" >>,
     << "m", "o", "v", "e", "r", "o", "w", "\t", "(", "1", ",", "t", "r", "u", "e", ")" >>}

ParseInputs ==
    {value \in {w.value : w \in WrittenCalls} \cup OtherStrings :
        \A i \in 1..Len(value) : value[i] \in Chars}

ParseInit ==
    /\ parse_pc = "call"
    /\ parse_value \in ParseInputs
    /\ parse_ret = None
    /\ MaskIdle
    /\ SafeIdle
    /\ CountIdle
    /\ GenIdle
    /\ JitIdle
    /\ GameIdle
    /\ UpdIdle
    /\ KbIdle
    /\ PlayIdle

ParseTryFrom ==
    /\ parse_pc = "call"
    /\ parse_ret' = try_from(parse_value)
    /\ parse_pc' = "done"
    /\ UNCHANGED parse_value
    /\ UNCHANGED not_parse_vars

ParseNext == ParseTryFrom

SpecParse == ParseInit /\ [][ParseNext]_vars

\* C16: a valid action call written with spaces between the name and the
\* opening bracket and around the arguments, or with capitals in the name,
\* parses to the Action its compact lower-case form parses to, and not to
\* an ActionParsingError.
C16_SpacingAndCaseIgnored ==
    parse_pc = "done" =>
        \A w \in WrittenCalls :
            w.value = parse_value =>
                /\ parse_ret = try_from(w.compact)
                /\ parse_ret # ActionParsingError

----------------------------------------------------------------------------
(* A call of fill_grid(grid, rng) on a partial grid.  The root call that   *)
(* returns None is the position "panic" of the machine, which is where     *)
(* generate_random_filled_grid panics.                                     *)

\* The partial grids passed in: those of CountGrids with at most MaxEmpty
\* cells to fill whose nonzero entries are distinct in every row, column
\* and box.
FillGrids ==
    {g \in CountGrids : Cardinality(EmptyCells(g)) <= MaxEmpty /\ IsValidGrid(g)}

FillInit ==
    /\ gen_pc = "call"
    /\ gen_grid \in FillGrids
    /\ gen_input = gen_grid
    /\ gen_box = 0
    /\ gen_stack = << >>
    /\ gen_rng \in RngStreams
    /\ gen_failed = FALSE
    /\ MaskIdle
    /\ SafeIdle
    /\ CountIdle
    /\ JitIdle
    /\ UiIdle

FillNext ==
    \/ FillEnter
    \/ FillReturnSome
    \/ FillTryDigit
    \/ FillReturnNone

SpecFill == FillInit /\ [][FillNext]_vars

\* C19: on a partial grid whose nonzero entries are distinct in every row,
\* column and box, fill_grid returns a grid exactly when solution_count of
\* that grid is at least 1, and the grid it returns has no zero cell, has
\* distinct rows, columns and boxes, and holds the entries of the input.
C19_FillAgreesWithCount ==
    /\ gen_pc = "done" =>
          /\ solution_count(gen_input) >= 1
          /\ IsFilledGrid(gen_grid)
          /\ Agrees(gen_input, gen_grid)
    /\ gen_pc = "panic" => solution_count(gen_input) = 0

\* A grid with cells to fill has been filled after a call inside the search
\* returned None.
C19_Witness ==
    /\ gen_pc = "done"
    /\ gen_failed
    /\ Cardinality(EmptyCells(gen_input)) >= 2
    /\ gen_grid # gen_input

\* The root call has returned None on a grid that has no completion.
C19_WitnessNone ==
    /\ gen_pc = "panic"
    /\ IsValidGrid(gen_input)
    /\ Len(gen_stack) = 0

----------------------------------------------------------------------------
(* A call of get_jittery_mirrored_cell(grid, row, col, rng): its loop,     *)
(* one sample at a time.                                                   *)

\* Most samples of a call in the model: the loop of the source has no limit.
MaxSamples == 3

\* The grids passed in: one without a zero cell, one with the cells of
\* CountPool masked, and one with 32 givens.
JitGrids == {FilledGrid, Emptied(FilledGrid, CountPool), TestSingleGrid}

JitInit ==
    /\ jit_pc = "loop"
    /\ jit_grid \in JitGrids
    /\ jit_row \in Idx
    /\ jit_col \in Idx
    /\ jit_samples = 0
    /\ jit_ret = None
    /\ MaskIdle
    /\ SafeIdle
    /\ CountIdle
    /\ GenIdle
    /\ UiIdle

\* One turn of the loop: two offsets are drawn, grid[new_r][new_c] is read
\* (an index outside the grid panics) and the cell is returned when it is
\* not zero.
JitSample ==
    /\ jit_pc = "loop"
    /\ jit_samples < MaxSamples
    /\ jit_samples' = jit_samples + 1
    /\ \E off_r \in JitterRange : \E off_c \in JitterRange :
          LET cell == jitter_sample(jit_row, jit_col, off_r, off_c)
          IN  IF cell \notin Idx \X Idx
              THEN /\ jit_pc' = "panic"
                   /\ UNCHANGED jit_ret
              ELSE IF Cell(jit_grid, cell[1], cell[2]) # 0
                   THEN /\ jit_pc' = "done"
                        /\ jit_ret' = cell
                   ELSE /\ jit_pc' = "loop"
                        /\ UNCHANGED jit_ret
    /\ UNCHANGED << jit_grid, jit_row, jit_col >>
    /\ UNCHANGED not_jit_vars

JitNext == JitSample

SpecJit == JitInit /\ [][JitNext]_vars

\* C20: get_jittery_mirrored_cell reads no cell outside the grid; the cell
\* it returns has both coordinates in 0..8, each the mirrored coordinate
\* plus an offset in -3..3 modulo 9, and is not zero in the grid passed
\* in; on a grid without a zero cell it returns at the first sample.
C20_JitteredCellInGrid ==
    /\ jit_pc # "panic"
    /\ jit_pc = "done" =>
          /\ jit_ret[1] \in 0..8
          /\ jit_ret[2] \in 0..8
          /\ \E off \in (-3)..3 : jit_ret[1] = (8 - jit_row + off) % 9
          /\ \E off \in (-3)..3 : jit_ret[2] = (8 - jit_col + off) % 9
          /\ Cell(jit_grid, jit_ret[1], jit_ret[2]) # 0
          /\ EmptyCells(jit_grid) = {} => jit_samples = 1

\* A cell is returned after a sample that was a zero cell, its row wrapped
\* past 8 and its column wrapped below 0.
C20_Witness ==
    /\ jit_pc = "done"
    /\ jit_samples >= 2
    /\ jit_row = 0
    /\ jit_ret[1] \in 0..2
    /\ jit_col = 8
    /\ jit_ret[2] \in 6..8

----------------------------------------------------------------------------
(* Claims about the arithmetic of mask_grid's counters.                    *)

\* C21 (as claimed): for every given_count the assertion accepts, those
\* above 81 too, 9 * 9 - given_count does not underflow (no panic, no
\* wrapped value), mask_count and removed stay within 0..81, mask_count
\* only decreases by 4, 2 or 1 from a value at least that large, and it is
\* 0 on return.
C21_CountersNeverWrap ==
    /\ [](given_count_ok(given_count) =>
            /\ pc # "panic"
            /\ mask_count \in 0..(N * N)
            /\ removed \in 0..(N * N)
            /\ pc = "done" => mask_count = 0)
    /\ [][mask_count' # mask_count /\ pc # "start" =>
            \E step \in {4, 2, 1} :
                /\ mask_count >= step
                /\ mask_count' = mask_count - step]_vars

----------------------------------------------------------------------------
(* Claims about the keydown callback.                                      *)

\* The names KeyboardEvent.key has for the four modifier keys.
ModifierKeyNames == {"Shift", "Control", "Alt", "Meta"}

\* The modifiers whose flag is set in the event.
held(e) ==
    {m \in ModifierKeyNames :
        \/ m = "Shift" /\ e.shift
        \/ m = "Control" /\ e.ctrl
        \/ m = "Alt" /\ e.alt
        \/ m = "Meta" /\ e.meta}

ModifierPriority == << "Shift", "Control", "Alt", "Meta" >>

\* The first modifier of ModifierPriority that is held, "None" when no
\* modifier is held.
first_held(e) ==
    IF held(e) = {} THEN "None"
    ELSE ModifierPriority[CHOOSE i \in 1..4 :
            /\ ModifierPriority[i] \in held(e)
            /\ \A j \in 1..(i - 1) : ModifierPriority[j] \notin held(e)]

\* C22: a keydown of a modifier key leaves the stored last key as it is; a
\* keydown of any other key stores the keybind of that key with the first
\* held modifier in the order Shift, Control, Alt, Meta; and update, whose
\* first step is consume_last_key, gets the keybind stored by the latest
\* keydown of a key that is not a modifier.
C22_KeydownStoresLatestKey ==
    [][ /\ (game_op' = "keydown" /\ game_event'.key \in ModifierKeyNames) =>
              last_key' = last_key
        /\ (game_op' = "keydown" /\ game_event'.key \notin ModifierKeyNames) =>
              /\ last_key'.key = event_key(game_event')
              /\ last_key'.modifier = first_held(game_event')
              /\ last_key'.key \notin ModifierKeyNames
        /\ game_op' = "consume" => game_ret' = last_key
        /\ game_op' = "peek" => last_key' = last_key
      ]_vars

\* update gets Control with Z, pressed with Control, Alt and Meta held,
\* after a later keydown of a modifier key.
C22_Witness ==
    /\ game_op = "consume"
    /\ game_event.key \in ModifierKeyNames
    /\ game_ret = [key |-> "Z", modifier |-> "Control"]

----------------------------------------------------------------------------
(* GameState: its grid of cells, generate_grid and update.  An update is   *)
(* one step: consume_last_key has returned a keybind and kb_manager has    *)
(* the action play_action for it, or there is nothing to do.               *)

\* Option<u8>: None, or Some(n).
Some(n) == << n >>

\* [false; 9]
NoCandidates == [i \in 1..N |-> FALSE]

\* Cell::new()
CellNew == [digit |-> None, candidates |-> NoCandidates, is_given |-> FALSE]

\* Mutant of clear_candidates: the candidates are left as they are.
clear_candidates_kept(cell) == cell

\* Cell::clear_candidates
clear_candidates(cell) == [cell EXCEPT !.candidates = NoCandidates]

\* Mutant of given_guard: no cell is taken to be a given.
given_guard_never(cell) == FALSE

\* `if self.get_focused_cell().is_given { return; }`
given_guard(cell) == cell.is_given

\* Mutant of candidate_guard: the digit of the cell is not looked at.
candidate_guard_given_only(cell) == cell.is_given

\* `if is_given || digit.is_some() { return; }`
candidate_guard(cell) == cell.is_given \/ cell.digit # None

\* The closure of generate_grid that maps a u8 of the puzzle to a Cell.
to_cell(n) ==
    IF n = 0
    THEN [digit |-> None, candidates |-> NoCandidates, is_given |-> FALSE]
    ELSE [digit |-> Some(n), candidates |-> NoCandidates, is_given |-> TRUE]

\* Two of the four corners, which are the cells the moves of PlayActions
\* bring the focus to: the cells masked in one of the puzzles.
PlayHoles == {<< 0, 0 >>, << 8, 8 >>}

\* generation::generate_grid(seed, given_count): a solution and a puzzle
\* masked from it.
Generated ==
    {<< FilledGrid, TestSingleGrid >>,
     << FilledGrid, Emptied(FilledGrid, PlayHoles) >>,
     << FilledGrid, FilledGrid >>}

\* The actions kb_manager has bindings for; "None" when update finds no
\* key or no binding.
PlayActions ==
    {MkAction("None", 0, FALSE),
     MkAction("MoveRow", 127, FALSE), MkAction("MoveRow", -8, TRUE),
     MkAction("MoveCol", 8, FALSE), MkAction("MoveCol", -8, TRUE),
     MkAction("WriteCell", 1, FALSE), MkAction("WriteCell", 2, FALSE),
     MkAction("ClearCell", 0, FALSE),
     MkAction("SetCandidate", 1, FALSE),
     MkAction("RemoveCandidate", 1, FALSE),
     MkAction("ToggleCandidate", 1, FALSE),
     MkAction("ClearCandidates", 0, FALSE),
     MkAction("HighlightCurrentDigit", 0, FALSE),
     MkAction("HighlightDigit", 3, FALSE),
     MkAction("ClearHighlight", 0, FALSE),
     MkAction("CycleColor", 0, FALSE)}

\* self.grid[self.focused_row as usize][self.focused_col as usize]
get_focused_cell == play_grid[play_row + 1][play_col + 1]

\* The grid with the focused cell replaced.
with_focused_cell(cell) ==
    [play_grid EXCEPT ![play_row + 1][play_col + 1] = cell]

\* with_keybind_manager has returned.
PlayInit ==
    /\ play_pc = "new"
    /\ play_grid = [r \in 1..N |-> [c \in 1..N |-> CellNew]]
    /\ play_solution = EmptyGrid
    /\ play_row = 0
    /\ play_col = 0
    /\ play_highlight = None
    /\ play_action = MkAction("None", 0, FALSE)
    /\ MaskIdle
    /\ SafeIdle
    /\ CountIdle
    /\ GenIdle
    /\ JitIdle
    /\ GameIdle
    /\ UpdIdle
    /\ KbIdle
    /\ ParseIdle

PlayGenerateGrid ==
    /\ play_pc \in {"new", "run"}
    /\ \E pair \in Generated :
          /\ play_grid' = [r \in 1..N |-> [c \in 1..N |-> to_cell(pair[2][r][c])]]
          /\ play_solution' = pair[1]
    /\ play_pc' = "run"
    /\ play_action' = MkAction("generate_grid", 0, FALSE)
    /\ UNCHANGED << play_row, play_col, play_highlight >>
    /\ UNCHANGED not_play_vars

\* The arms of MoveRow and MoveCol: see UpdMove.
PlayMove(action) ==
    LET pos == IF action.tag = "MoveRow" THEN play_row ELSE play_col
        sum == pos + action.n
    IN  \E overflow_checks \in BOOLEAN :
           IF sum \notin I8 /\ overflow_checks
           THEN /\ play_pc' = "panic"
                /\ UNCHANGED << play_row, play_col >>
           ELSE /\ UNCHANGED play_pc
                /\ IF action.tag = "MoveRow"
                   THEN /\ play_row' = moved(pos, wrap_i8(sum), action.safe)
                        /\ UNCHANGED play_col
                   ELSE /\ play_col' = moved(pos, wrap_i8(sum), action.safe)
                        /\ UNCHANGED play_row

\* The arms that write the focused cell: the grid after the arm.
edited(action) ==
    LET cell == get_focused_cell
        n == action.n
    IN  CASE action.tag = "WriteCell" ->
                IF given_guard(cell) THEN play_grid
                ELSE with_focused_cell(
                        clear_candidates([cell EXCEPT !.digit = Some(n)]))
          [] action.tag = "ClearCell" ->
                IF given_guard(cell) THEN play_grid
                ELSE with_focused_cell([cell EXCEPT !.digit = None])
          [] action.tag = "SetCandidate" ->
                IF candidate_guard(cell) THEN play_grid
                ELSE with_focused_cell([cell EXCEPT !.candidates[n] = TRUE])
          [] action.tag = "RemoveCandidate" ->
                IF candidate_guard(cell) THEN play_grid
                ELSE with_focused_cell([cell EXCEPT !.candidates[n] = FALSE])
          [] action.tag = "ToggleCandidate" ->
                IF candidate_guard(cell) THEN play_grid
                ELSE with_focused_cell(
                        [cell EXCEPT !.candidates[n] = ~cell.candidates[n]])
          [] action.tag = "ClearCandidates" ->
                with_focused_cell(clear_candidates(cell))
          [] OTHER -> play_grid

\* The arms that set highlighted_digit: its value after the arm.
highlighted(action) ==
    CASE action.tag = "HighlightCurrentDigit" -> get_focused_cell.digit
      [] action.tag = "HighlightDigit" -> Some(action.n)
      [] action.tag = "ClearHighlight" -> None
      [] OTHER -> play_highlight

\* update: the arm of the action; an action without an arm is todo!().
PlayUpdate ==
    /\ play_pc \in {"new", "run"}
    /\ \E action \in PlayActions :
          /\ play_action' = action
          /\ IF action.tag \in {"MoveRow", "MoveCol"}
             THEN /\ PlayMove(action)
                  /\ UNCHANGED << play_grid, play_highlight >>
             ELSE IF action.tag \in {"CycleColor", "ClearAllColors"}
             THEN /\ play_pc' = "panic"
                  /\ UNCHANGED << play_grid, play_highlight, play_row, play_col >>
             ELSE /\ play_grid' = edited(action)
                  /\ play_highlight' = highlighted(action)
                  /\ UNCHANGED << play_pc, play_row, play_col >>
    /\ UNCHANGED play_solution
    /\ UNCHANGED not_play_vars

PlayNext ==
    \/ PlayGenerateGrid
    \/ PlayUpdate

SpecPlay == PlayInit /\ [][PlayNext]_vars

\* C23: in an update after generate_grid, whatever its action, every given
\* cell keeps its digit and its candidates, which are all false, no
\* cell's is_given changes, and the solution is unchanged.
C23_GivensAreFixed ==
    [][ (play_pc = "run" /\ play_action'.tag # "generate_grid") =>
            /\ play_solution' = play_solution
            /\ \A r \in 1..N : \A c \in 1..N :
                  /\ play_grid'[r][c].is_given = play_grid[r][c].is_given
                  /\ play_grid[r][c].is_given =>
                        /\ play_grid'[r][c].digit = play_grid[r][c].digit
                        /\ play_grid'[r][c].candidates = play_grid[r][c].candidates
                        /\ play_grid'[r][c].candidates = NoCandidates
      ]_vars

\* WriteCell has run on a given cell that holds another digit.
C23_Witness ==
    /\ play_pc = "run"
    /\ play_action.tag = "WriteCell"
    /\ get_focused_cell.is_given
    /\ get_focused_cell.digit # Some(play_action.n)
    /\ play_solution = FilledGrid

\* C24: in every state of GameState a cell that holds a digit has no
\* candidate set; WriteCell on a cell that is not a given leaves it with
\* the digit and no candidate, and SetCandidate and ToggleCandidate leave
\* the grid as it is when the focused cell holds a digit.
C24_DigitMeansNoCandidates ==
    /\ [](\A r \in 1..N : \A c \in 1..N :
            play_grid[r][c].digit # None =>
                play_grid[r][c].candidates = NoCandidates)
    /\ [][ /\ (play_action'.tag = "WriteCell" /\ ~get_focused_cell.is_given) =>
                  play_grid'[play_row + 1][play_col + 1] =
                      [digit |-> Some(play_action'.n),
                       candidates |-> NoCandidates, is_given |-> FALSE]
           /\ (/\ play_action'.tag \in {"SetCandidate", "ToggleCandidate"}
               /\ get_focused_cell.digit # None) =>
                  play_grid' = play_grid
         ]_vars

\* SetCandidate has run on a cell that holds a digit the player wrote.
C24_Witness ==
    /\ play_action.tag = "SetCandidate"
    /\ get_focused_cell.digit = Some(2)
    /\ ~get_focused_cell.is_given
    /\ play_pc = "run"

====
